---- MODULE Spec2Model ----
(***************************************************************************)
(* langchain-scraperapi: the request wrappers (utils.py) and the tool      *)
(* facades (tools.py).                                                     *)
(*                                                                         *)
(* A Python value is a record [tag, val] whose val is always a string:     *)
(* None, a str, an int (its decimal digits) or a bool ("True"/"False").    *)
(* A params dict is a function from the keys it holds to such values.      *)
(***************************************************************************)
EXTENDS Integers, Sequences, FiniteSets, TLC

VARIABLES scraperapi_api_key, instances, environ, constructed, call, gets,
          completed, tools, tasks

vars == <<scraperapi_api_key, instances, environ, constructed, call, gets,
          completed, tools, tasks>>

\* The wrappers and what they were constructed from: no call touches them.
wrappers == <<scraperapi_api_key, instances, environ, constructed>>

\* The tools' declared attributes and the concurrent tasks: the caller's
\* single call and the constructions touch neither.
apart == <<tools, tasks>>

(* ------------------------------ bounds -------------------------------- *)

\* The largest number of optional arguments one call supplies (not None).
MaxSupplied == 2

\* The number of wrapper calls the caller makes.
MaxCalls == 2

\* The number of tasks that run wrapper calls concurrently.
NumTasks == 2

(* --------------------------- Python values ---------------------------- *)

None == [tag |-> "None", val |-> ""]

StrV(s) == [tag |-> "str", val |-> s]

IntV(n) == [tag |-> "int", val |-> ToString(n)]

BoolV(b) == [tag |-> "bool", val |-> IF b THEN "True" ELSE "False"]

\* Python truthiness of a value, as `if x:` tests it.
Truthy(v) ==
    CASE v.tag = "None" -> FALSE
      [] v.tag = "str"  -> v.val # ""
      [] v.tag = "int"  -> v.val # "0"
      [] v.tag = "bool" -> v.val = "True"

\* str(v), as the transport renders a parameter value into the query string.
PyStr(v) == v.val

(* ------------------------- constants of utils.py ---------------------- *)

SCRAPERAPI_BASE_URL == "https://api.scraperapi.com/"

SCRAPERAPI_STRUCTURED_BASE_URL == "https://api.scraperapi.com/structured/"

Wrappers == {"ScraperAPIWrapper", "ScraperAPIStructuredWrapper"}

\* The credentials a wrapper may have been constructed with.
Keys == {"key-A", "key-B"}

(* ------------------------- arguments of a call ------------------------ *)

\* The values each optional argument is drawn from when it is supplied.
ScrapeDomain ==
    [output_format |-> {StrV(""), StrV("text"), StrV("markdown")},
     country_code  |-> {StrV(""), StrV("us")},
     device_type   |-> {StrV(""), StrV("desktop"), StrV("mobile")},
     premium       |-> {BoolV(TRUE), BoolV(FALSE)},
     render        |-> {BoolV(TRUE), BoolV(FALSE)},
     keep_headers  |-> {BoolV(TRUE), BoolV(FALSE)}]

GoogleDomain ==
    [country_code  |-> {StrV(""), StrV("us")},
     tld           |-> {StrV("com")},
     output_format |-> {StrV("json"), StrV("csv")},
     uule          |-> {StrV("w+CAIQ")},
     num           |-> {IntV(0), IntV(10)},
     hl            |-> {StrV(""), StrV("DE")},
     gl            |-> {StrV("DE")},
     ie            |-> {StrV("UTF8")},
     oe            |-> {StrV("UTF8")},
     start         |-> {IntV(0), IntV(10)}]

AmazonDomain ==
    [country_code  |-> {StrV(""), StrV("uk")},
     tld           |-> {StrV("co.uk")},
     output_format |-> {StrV("json"), StrV("csv")},
     page          |-> {IntV(0), IntV(2)}]

\* Every assignment of the optional arguments of `dom` that supplies at most
\* MaxSupplied of them and leaves the others at their default, None.
OptionalArgs(dom) ==
    LET fields == DOMAIN dom
        vals   == UNION {dom[k] : k \in fields}
    IN  UNION { { [k \in fields |-> IF k \in S THEN f[k] ELSE None] :
                    f \in {g \in [S -> vals] : \A k \in S : g[k] \in dom[k]} } :
                S \in {T \in SUBSET fields : Cardinality(T) <= MaxSupplied} }

\* Python's keyword call: the required argument joined to the optional ones.
WithRequired(name, v, opt) ==
    [k \in {name} \cup DOMAIN opt |-> IF k = name THEN v ELSE opt[k]]

ScrapeArgs ==
    { WithRequired("url", StrV("http://example.com"), opt) :
        opt \in OptionalArgs(ScrapeDomain) }

GoogleArgs ==
    { WithRequired("query", StrV("pizza"), opt) :
        opt \in OptionalArgs(GoogleDomain) }

AmazonArgs ==
    { WithRequired("query", StrV("shoes"), opt) :
        opt \in OptionalArgs(AmazonDomain) }

(* ----------------------- the remote exchange -------------------------- *)

\* The status codes the remote end answers with: success with and without
\* the code 200, a redirection, a client error and a server error.
Statuses == {200, 201, 204, 304, 404, 500}

Bodies == {"<html>Success</html>", "Error: boom"}

\* The reason phrase the remote end sends with a status.
Reason(status) ==
    CASE status = 200 -> "OK"
      [] status = 201 -> "Created"
      [] status = 204 -> "No Content"
      [] status = 304 -> "Not Modified"
      [] status = 404 -> "Not Found"
      [] status = 500 -> "Internal Server Error"

\* What one GET ends in: a response, or a transport fault raised by the
\* transport (connection refused, timeout, DNS).
Responses ==
    { [kind |-> "response", status |-> s, body |-> b, exc |-> "", msg |-> ""] :
        s \in Statuses, b \in Bodies }

Faults ==
    { [kind |-> "fault", status |-> 0, body |-> "", exc |-> "ConnectionError",
       msg |-> "Connection failed"],
      [kind |-> "fault", status |-> 0, body |-> "", exc |-> "Timeout",
       msg |-> "Read timed out"] }

Outcomes == Responses \cup Faults

\* No fault while the body of a response is read.
NoFault == [kind |-> "none", status |-> 0, body |-> "", exc |-> "", msg |-> ""]

(* ------------------- results of a Python call ------------------------- *)

Return(v) == [kind |-> "return", exc |-> "", val |-> v]

Raise(exc, msg) == [kind |-> "raise", exc |-> exc, val |-> StrV(msg)]

(* --------------------------- params dicts ----------------------------- *)

\* d[k] = v on a dict.
Put(d, k, v) == [x \in DOMAIN d \cup {k} |-> IF x = k THEN v ELSE d[x]]

\* {**a, **b}: the keys of both, b's value where both hold a key.
Merge(a, b) ==
    [x \in DOMAIN a \cup DOMAIN b |-> IF x \in DOMAIN b THEN b[x] ELSE a[x]]

\* The query string the transport renders from a params dict, its keys in
\* the order `order` (the dict's insertion order); the transport leaves out
\* a key whose value is None.
RECURSIVE Query(_, _, _)
Query(params, order, sep) ==
    IF order = <<>> THEN ""
    ELSE LET k == Head(order)
         IN  IF k \in DOMAIN params /\ params[k].tag # "None"
             THEN sep \o k \o "=" \o PyStr(params[k])
                      \o Query(params, Tail(order), "&")
             ELSE Query(params, Tail(order), sep)

\* response.url: the target with the query string.
ResponseUrl(req) == req.target \o Query(req.params, req.order, "?")

(* ------------------- the transports' status checks -------------------- *)

\* requests' Response.raise_for_status(), called at utils.py 81 and 163:
\* an HTTPError for a status from 400 to 599, nothing for any other status.
requests_raise_for_status(req, o) ==
    IF 400 <= o.status /\ o.status < 500
    THEN Raise("HTTPError",
               ToString(o.status) \o " Client Error: " \o Reason(o.status)
                   \o " for url: " \o ResponseUrl(req))
    ELSE IF 500 <= o.status /\ o.status < 600
    THEN Raise("HTTPError",
               ToString(o.status) \o " Server Error: " \o Reason(o.status)
                   \o " for url: " \o ResponseUrl(req))
    ELSE Return(None)

\* aiohttp's ClientResponse.raise_for_status(), called at utils.py 131 and
\* 179: a ClientResponseError for a status of 400 or more, nothing below.
aiohttp_raise_for_status(req, o) ==
    IF 400 <= o.status
    THEN Raise("ClientResponseError",
               ToString(o.status) \o ", message='" \o Reason(o.status)
                   \o "', url='" \o ResponseUrl(req) \o "'")
    ELSE Return(None)

(* ------------------------- ScraperAPIWrapper -------------------------- *)

\* The insertion order of the keys of scrape's params dict.
ScrapeOrder ==
    <<"api_key", "url", "output_format", "country_code", "device_type",
      "premium", "render", "keep_headers">>

\* scrape_params with `is not None` for the truth test of the three string
\* arguments: an empty string is sent.
scrape_params_not_none(key, a) ==
    LET p0 == [k \in {"api_key", "url"} |->
                  IF k = "api_key" THEN StrV(key) ELSE a.url]
        opt == {k \in {"output_format", "country_code", "device_type"} :
                   a[k] # None}
        p3 == [k \in DOMAIN p0 \cup opt |-> IF k \in opt THEN a[k] ELSE p0[k]]
        p4 == IF a.premium # None
              THEN Put(p3, "premium",
                       StrV(IF Truthy(a.premium) THEN "true" ELSE "false"))
              ELSE p3
        p5 == IF a.render # None
              THEN Put(p4, "render",
                       StrV(IF Truthy(a.render) THEN "true" ELSE "false"))
              ELSE p4
        p6 == IF a.keep_headers # None
              THEN Put(p5, "keep_headers",
                       StrV(IF Truthy(a.keep_headers) THEN "true" ELSE "false"))
              ELSE p5
    IN  p6

\* scrape, utils.py 62-78: the params dict.
scrape_params(key, a) ==
    LET p0 == [k \in {"api_key", "url"} |->
                  IF k = "api_key" THEN StrV(key) ELSE a.url]
        p1 == IF Truthy(a.output_format)
              THEN Put(p0, "output_format", a.output_format) ELSE p0
        p2 == IF Truthy(a.country_code)
              THEN Put(p1, "country_code", a.country_code) ELSE p1
        p3 == IF Truthy(a.device_type)
              THEN Put(p2, "device_type", a.device_type) ELSE p2
        p4 == IF a.premium # None
              THEN Put(p3, "premium",
                       StrV(IF Truthy(a.premium) THEN "true" ELSE "false"))
              ELSE p3
        p5 == IF a.render # None
              THEN Put(p4, "render",
                       StrV(IF Truthy(a.render) THEN "true" ELSE "false"))
              ELSE p4
        p6 == IF a.keep_headers # None
              THEN Put(p5, "keep_headers",
                       StrV(IF Truthy(a.keep_headers) THEN "true" ELSE "false"))
              ELSE p5
    IN  p6

\* scrape, utils.py 80: the GET it issues.
scrape_request(key, a) ==
    [target |-> SCRAPERAPI_BASE_URL, params |-> scrape_params(key, a),
     order |-> ScrapeOrder]

\* scrape_result with the status test of the non-blocking twin: the text
\* for status 200 alone, None for any other status that does not raise.
scrape_result_only_200(req, o) ==
    IF o.kind = "fault" THEN Raise(o.exc, o.msg)
    ELSE IF o.status = 200 THEN Return(StrV(o.body))
    ELSE LET checked == requests_raise_for_status(req, o)
         IN  IF checked.kind = "raise" THEN checked ELSE Return(None)

\* scrape_result with the transport's fault caught and an empty text
\* returned in its place.
scrape_result_fault_as_text(req, o) ==
    IF o.kind = "fault" THEN Return(StrV(""))
    ELSE LET checked == requests_raise_for_status(req, o)
         IN  IF checked.kind = "raise" THEN checked
             ELSE Return(StrV(o.body))

\* scrape, utils.py 80-82: requests.get raises the transport's fault;
\* otherwise raise_for_status(), then the response's text.
scrape_result(req, o) ==
    IF o.kind = "fault" THEN Raise(o.exc, o.msg)
    ELSE LET checked == requests_raise_for_status(req, o)
         IN  IF checked.kind = "raise" THEN checked
             ELSE Return(StrV(o.body))

\* scrape_async_params with the truth test of the string arguments used for
\* the booleans too, and the boolean itself sent: a False is left out and a
\* True goes out as a native boolean.
scrape_async_params_truthy_bools(key, a) ==
    LET p0  == [k \in {"api_key", "url"} |->
                   IF k = "api_key" THEN StrV(key) ELSE a.url]
        opt == {k \in DOMAIN a \ {"url"} : Truthy(a[k])}
    IN  [k \in DOMAIN p0 \cup opt |-> IF k \in opt THEN a[k] ELSE p0[k]]

\* scrape_async, utils.py 108-124: the params dict.
scrape_async_params(key, a) ==
    LET p0 == [k \in {"api_key", "url"} |->
                  IF k = "api_key" THEN StrV(key) ELSE a.url]
        p1 == IF Truthy(a.output_format)
              THEN Put(p0, "output_format", a.output_format) ELSE p0
        p2 == IF Truthy(a.country_code)
              THEN Put(p1, "country_code", a.country_code) ELSE p1
        p3 == IF Truthy(a.device_type)
              THEN Put(p2, "device_type", a.device_type) ELSE p2
        p4 == IF a.premium # None
              THEN Put(p3, "premium",
                       StrV(IF Truthy(a.premium) THEN "true" ELSE "false"))
              ELSE p3
        p5 == IF a.render # None
              THEN Put(p4, "render",
                       StrV(IF Truthy(a.render) THEN "true" ELSE "false"))
              ELSE p4
        p6 == IF a.keep_headers # None
              THEN Put(p5, "keep_headers",
                       StrV(IF Truthy(a.keep_headers) THEN "true" ELSE "false"))
              ELSE p5
    IN  p6

\* scrape_async, utils.py 126-127: the GET it issues.
scrape_async_request(key, a) ==
    [target |-> SCRAPERAPI_BASE_URL, params |-> scrape_async_params(key, a),
     order |-> ScrapeOrder]

\* scrape_async_on_response with the body read for every status from 200
\* to 299.
scrape_async_on_response_any_2xx(req, o) ==
    IF 200 <= o.status /\ o.status < 300
    THEN [kind |-> "await", exc |-> "", val |-> None]
    ELSE LET checked == aiohttp_raise_for_status(req, o)
         IN  IF checked.kind = "raise" THEN checked ELSE Return(None)

\* scrape_async, utils.py 127-131, once session.get has resumed with a
\* response: for status 200 the call goes on to await response.text()
\* (kind "await"); for any other status raise_for_status() is called, and
\* when it raises nothing the coroutine falls off its end and returns None.
scrape_async_on_response(req, o) ==
    IF o.status = 200 THEN [kind |-> "await", exc |-> "", val |-> None]
    ELSE LET checked == aiohttp_raise_for_status(req, o)
         IN  IF checked.kind = "raise" THEN checked ELSE Return(None)

\* scrape_async, utils.py 129: the awaited text is returned.
scrape_async_on_text(body) == Return(StrV(body))

(* --------------------- ScraperAPIStructuredWrapper -------------------- *)

\* FilterNone with the filter left out: every entry is sent, a None too.
FilterNone_keeps_all(d) == d

\* FilterNone with `if v` for `if v is not None`: a zero and an empty
\* string are dropped with the None.
FilterNone_by_truth(d) == [k \in {x \in DOMAIN d : Truthy(d[x])} |-> d[k]]

\* {k: v for k, v in d.items() if v is not None}
FilterNone(d) == [k \in {x \in DOMAIN d : d[x] # None} |-> d[k]]

\* _make_request_request with the credential of the first caller kept for
\* every later instance.
_make_request_request_first_key(key, endpoint, params, order) ==
    LET base_params     == [k \in {"api_key"} |-> StrV("key-A")]
        all_params      == Merge(base_params, params)
        filtered_params == FilterNone(all_params)
    IN  [target |-> SCRAPERAPI_STRUCTURED_BASE_URL \o endpoint,
         params |-> filtered_params,
         order  |-> <<"api_key">> \o order]

\* _make_request, utils.py 156-162: the GET it issues.
_make_request_request(key, endpoint, params, order) ==
    LET base_params     == [k \in {"api_key"} |-> StrV(key)]
        all_params      == Merge(base_params, params)
        filtered_params == FilterNone(all_params)
    IN  [target |-> SCRAPERAPI_STRUCTURED_BASE_URL \o endpoint,
         params |-> filtered_params,
         order  |-> <<"api_key">> \o order]

\* _make_request, utils.py 162-164.
_make_request_result(req, o) ==
    IF o.kind = "fault" THEN Raise(o.exc, o.msg)
    ELSE LET checked == requests_raise_for_status(req, o)
         IN  IF checked.kind = "raise" THEN checked
             ELSE Return(StrV(o.body))

\* _make_request_async_request with the None filter of its blocking twin
\* left out: the arguments left at None are sent too.
_make_request_async_request_unfiltered(key, endpoint, params, order) ==
    LET base_params == [k \in {"api_key"} |-> StrV(key)]
        all_params  == Merge(base_params, params)
    IN  [target |-> SCRAPERAPI_STRUCTURED_BASE_URL \o endpoint,
         params |-> all_params,
         order  |-> <<"api_key">> \o order]

\* _make_request_async, utils.py 168-175: the GET it issues.
_make_request_async_request(key, endpoint, params, order) ==
    LET base_params     == [k \in {"api_key"} |-> StrV(key)]
        all_params      == Merge(base_params, params)
        filtered_params == FilterNone(all_params)
    IN  [target |-> SCRAPERAPI_STRUCTURED_BASE_URL \o endpoint,
         params |-> filtered_params,
         order  |-> <<"api_key">> \o order]

\* _make_request_async_on_response with the status checked first, as in
\* the blocking twin, and the body read whenever the check raises nothing.
_make_request_async_on_response_check_first(req, o) ==
    LET checked == aiohttp_raise_for_status(req, o)
    IN  IF checked.kind = "raise" THEN checked
        ELSE [kind |-> "await", exc |-> "", val |-> None]

\* _make_request_async, utils.py 175-179, once session.get has resumed with
\* a response (see scrape_async_on_response).
_make_request_async_on_response(req, o) ==
    IF o.status = 200 THEN [kind |-> "await", exc |-> "", val |-> None]
    ELSE LET checked == aiohttp_raise_for_status(req, o)
         IN  IF checked.kind = "raise" THEN checked ELSE Return(None)

\* _make_request_async, utils.py 177.
_make_request_async_on_text(body) == Return(StrV(body))

\* The insertion order of the keys of google_search's params dict.
GoogleOrder ==
    <<"query", "country_code", "tld", "output_format", "uule", "num", "hl",
      "gl", "ie", "oe", "start">>

\* google_search, utils.py 213-225: the params dict.
google_search_params(a) ==
    [query         |-> a.query,
     country_code  |-> a.country_code,
     tld           |-> a.tld,
     output_format |-> a.output_format,
     uule          |-> a.uule,
     num           |-> a.num,
     hl            |-> a.hl,
     gl            |-> a.gl,
     ie            |-> a.ie,
     oe            |-> a.oe,
     start         |-> a.start]

\* google_search, utils.py 226.
google_search_request(key, a) ==
    _make_request_request(key, "google/search", google_search_params(a),
                          GoogleOrder)

\* google_search_async, utils.py 260-272: the params dict.
google_search_async_params(a) ==
    [query         |-> a.query,
     country_code  |-> a.country_code,
     tld           |-> a.tld,
     output_format |-> a.output_format,
     uule          |-> a.uule,
     num           |-> a.num,
     hl            |-> a.hl,
     gl            |-> a.gl,
     ie            |-> a.ie,
     oe            |-> a.oe,
     start         |-> a.start]

\* google_search_async_request with the endpoint of amazon_search_async.
google_search_async_request_amazon(key, a) ==
    _make_request_async_request(key, "amazon/search",
                                google_search_async_params(a), GoogleOrder)

\* google_search_async, utils.py 273.
google_search_async_request(key, a) ==
    _make_request_async_request(key, "google/search",
                                google_search_async_params(a), GoogleOrder)

\* The insertion order of the keys of amazon_search's params dict.
AmazonOrder == <<"query", "country", "tld", "output_format", "page">>

\* amazon_search, utils.py 295-301: the params dict.
amazon_search_params(a) ==
    [query         |-> a.query,
     country       |-> a.country_code,
     tld           |-> a.tld,
     output_format |-> a.output_format,
     page          |-> a.page]

\* amazon_search, utils.py 302.
amazon_search_request(key, a) ==
    _make_request_request(key, "amazon/search", amazon_search_params(a),
                          AmazonOrder)

\* amazon_search_async_params without the rename: country_code goes out
\* under its own name.
amazon_search_async_params_unrenamed(a) ==
    [query         |-> a.query,
     country_code  |-> a.country_code,
     tld           |-> a.tld,
     output_format |-> a.output_format,
     page          |-> a.page]

\* amazon_search_async, utils.py 324-330: the params dict.
amazon_search_async_params(a) ==
    [query         |-> a.query,
     country       |-> a.country_code,
     tld           |-> a.tld,
     output_format |-> a.output_format,
     page          |-> a.page]

\* amazon_search_async, utils.py 331.
amazon_search_async_request(key, a) ==
    _make_request_async_request(key, "amazon/search",
                                amazon_search_async_params(a), AmazonOrder)

(* ---------------------------- tool facades ---------------------------- *)

ToolClasses ==
    {"ScraperAPITool", "ScraperAPIGoogleSearchTool",
     "ScraperAPIAmazonSearchTool"}

\* The attributes ScraperAPITool declares, tools.py 97-105: its name, its
\* description and the class of its args_schema.
ScraperAPITool_attributes ==
    [name        |-> "scraperapi",
     description |-> "A tool for scraping web content. "
                         \o "Useful for extracting information from websites. "
                         \o "Input should be a URL and optional parameters "
                         \o "for the scraping request.",
     args_schema |-> "ScraperAPIToolInput"]

\* ScraperAPIGoogleSearchTool, tools.py 238-244.
ScraperAPIGoogleSearchTool_attributes ==
    [name        |-> "scraperapi_google_search",
     description |-> "A tool for performing Google searches using "
                         \o "ScraperAPI. Useful for extracting structured "
                         \o "data from Google search results. Input should "
                         \o "be a query and optional parameters for the "
                         \o "search request.",
     args_schema |-> "ScraperAPIGoogleSearchToolInput"]

\* ScraperAPIAmazonSearchTool_attributes with the name and the schema of
\* the Google tool left in place when its class was copied.
ScraperAPIAmazonSearchTool_attributes_copied ==
    [name        |-> "scraperapi_google_search",
     description |-> "A tool for performing Amazon searches using "
                         \o "ScraperAPI. Useful for extracting structured "
                         \o "data from Amazon search results. Input should "
                         \o "be a query and optional parameters for the "
                         \o "search request.",
     args_schema |-> "ScraperAPIGoogleSearchToolInput"]

\* ScraperAPIAmazonSearchTool, tools.py 378-384.
ScraperAPIAmazonSearchTool_attributes ==
    [name        |-> "scraperapi_amazon_search",
     description |-> "A tool for performing Amazon searches using "
                         \o "ScraperAPI. Useful for extracting structured "
                         \o "data from Amazon search results. Input should "
                         \o "be a query and optional parameters for the "
                         \o "search request.",
     args_schema |-> "ScraperAPIAmazonSearchToolInput"]

\* The attributes of each tool class as declared.
ToolAttributes ==
    [cls \in ToolClasses |->
        CASE cls = "ScraperAPITool" -> ScraperAPITool_attributes
          [] cls = "ScraperAPIGoogleSearchTool" ->
                 ScraperAPIGoogleSearchTool_attributes
          [] cls = "ScraperAPIAmazonSearchTool" ->
                 ScraperAPIAmazonSearchTool_attributes]


\* The keyword arguments ScraperAPITool._run hands to scrape, tools.py
\* 125-132: each parameter of _run under its own name.
ScraperAPITool_run_kwargs(a) ==
    [url           |-> a.url,
     output_format |-> a.output_format,
     country_code  |-> a.country_code,
     device_type   |-> a.device_type,
     premium       |-> a.premium,
     render        |-> a.render,
     keep_headers  |-> a.keep_headers]

\* ScraperAPITool._arun to scrape_async, tools.py 151-158.
ScraperAPITool_arun_kwargs(a) ==
    [url           |-> a.url,
     output_format |-> a.output_format,
     country_code  |-> a.country_code,
     device_type   |-> a.device_type,
     premium       |-> a.premium,
     render        |-> a.render,
     keep_headers  |-> a.keep_headers]

\* ScraperAPIGoogleSearchTool._run to google_search, tools.py 268-280.
ScraperAPIGoogleSearchTool_run_kwargs(a) ==
    [query         |-> a.query,
     country_code  |-> a.country_code,
     tld           |-> a.tld,
     output_format |-> a.output_format,
     uule          |-> a.uule,
     num           |-> a.num,
     hl            |-> a.hl,
     gl            |-> a.gl,
     ie            |-> a.ie,
     oe            |-> a.oe,
     start         |-> a.start]

\* ScraperAPIGoogleSearchTool._arun with hl and gl handed over in each
\* other's place.
ScraperAPIGoogleSearchTool_arun_kwargs_crossed(a) ==
    [query         |-> a.query,
     country_code  |-> a.country_code,
     tld           |-> a.tld,
     output_format |-> a.output_format,
     uule          |-> a.uule,
     num           |-> a.num,
     hl            |-> a.gl,
     gl            |-> a.hl,
     ie            |-> a.ie,
     oe            |-> a.oe,
     start         |-> a.start]

\* ScraperAPIGoogleSearchTool._arun to google_search_async, tools.py 302-314.
ScraperAPIGoogleSearchTool_arun_kwargs(a) ==
    [query         |-> a.query,
     country_code  |-> a.country_code,
     tld           |-> a.tld,
     output_format |-> a.output_format,
     uule          |-> a.uule,
     num           |-> a.num,
     hl            |-> a.hl,
     gl            |-> a.gl,
     ie            |-> a.ie,
     oe            |-> a.oe,
     start         |-> a.start]

\* ScraperAPIAmazonSearchTool._run to amazon_search, tools.py 402-408.
ScraperAPIAmazonSearchTool_run_kwargs(a) ==
    [query         |-> a.query,
     country_code  |-> a.country_code,
     tld           |-> a.tld,
     output_format |-> a.output_format,
     page          |-> a.page]

\* ScraperAPIAmazonSearchTool._arun to amazon_search_async, tools.py 424-430.
ScraperAPIAmazonSearchTool_arun_kwargs(a) ==
    [query         |-> a.query,
     country_code  |-> a.country_code,
     tld           |-> a.tld,
     output_format |-> a.output_format,
     page          |-> a.page]

\* ScraperAPITool._run, tools.py 123-134: the wrapper's text, or
\* f"Error: {str(e)}" for an exception e it raised.
ScraperAPITool_run_result(w) ==
    IF w.kind = "raise" THEN Return(StrV("Error: " \o PyStr(w.val))) ELSE w

\* ScraperAPITool._arun, tools.py 149-160.
ScraperAPITool_arun_result(w) ==
    IF w.kind = "raise" THEN Return(StrV("Error: " \o PyStr(w.val))) ELSE w

\* ScraperAPIGoogleSearchTool_run_result with the wrapper's text labelled.
ScraperAPIGoogleSearchTool_run_result_labelled(w) ==
    IF w.kind = "raise" THEN Return(StrV("Error: " \o PyStr(w.val)))
    ELSE Return(StrV("Result: " \o PyStr(w.val)))

\* ScraperAPIGoogleSearchTool._run, tools.py 267-282.
ScraperAPIGoogleSearchTool_run_result(w) ==
    IF w.kind = "raise" THEN Return(StrV("Error: " \o PyStr(w.val))) ELSE w

\* ScraperAPIGoogleSearchTool._arun, tools.py 301-316.
ScraperAPIGoogleSearchTool_arun_result(w) ==
    IF w.kind = "raise" THEN Return(StrV("Error: " \o PyStr(w.val))) ELSE w

\* ScraperAPIAmazonSearchTool._run, tools.py 401-410.
ScraperAPIAmazonSearchTool_run_result(w) ==
    IF w.kind = "raise" THEN Return(StrV("Error: " \o PyStr(w.val))) ELSE w

\* ScraperAPIAmazonSearchTool_arun_result with repr(e) for str(e): the
\* exception's class name wraps the message.
ScraperAPIAmazonSearchTool_arun_result_repr(w) ==
    IF w.kind = "raise"
    THEN Return(StrV("Error: " \o w.exc \o "('" \o PyStr(w.val) \o "')"))
    ELSE w

\* ScraperAPIAmazonSearchTool._arun, tools.py 423-432.
ScraperAPIAmazonSearchTool_arun_result(w) ==
    IF w.kind = "raise" THEN Return(StrV("Error: " \o PyStr(w.val))) ELSE w

\* The _arun whose try block awaits the wrapper call of tool `tool`.
ArunResult(tool, w) ==
    CASE tool = "scraperapi" -> ScraperAPITool_arun_result(w)
      [] tool = "scraperapi_google_search" ->
             ScraperAPIGoogleSearchTool_arun_result(w)
      [] tool = "scraperapi_amazon_search" ->
             ScraperAPIAmazonSearchTool_arun_result(w)

(* ------------------------------- state -------------------------------- *)

\* Not yet a result: the call has not completed.
Pending == [kind |-> "pending", exc |-> "", val |-> None]

NoRequest == [target |-> "", params |-> [k \in {} |-> None], order |-> <<>>]

\* call: the caller's one call, from its invocation to its completion.
\*   pc      "idle" (none yet), "get" (suspended in session.get), "text"
\*           (suspended in response.text()), "done" (completed)
\*   layer   "wrapper" (a wrapper method called directly), "facade" (_run
\*           or _arun called directly) or "invoke" (invoke or ainvoke of a
\*           tool, which validates its input and then calls _run or _arun)
\*   kwargs  the keyword arguments the wrapper method was called with
\*   wcalls  the wrapper calls this call has made
\*   wres    what the wrapper method returned or raised
\*   result  what the invoked method returned or raised
\*   outcome the response or fault the GET ended in; fault: the fault raised
\*           while the body was read
\* gets: the HTTP GETs issued so far (requests.get and session.get calls).
\* completed: the wrapper calls that have returned or raised so far.
NoCall ==
    [pc |-> "idle", tool |-> "", method |-> "", mode |-> "", layer |-> "",
     args |-> [url |-> None], kwargs |-> [url |-> None], wcalls |-> 0,
     req |-> NoRequest, outcome |-> NoFault, fault |-> NoFault,
     wres |-> Pending, result |-> Pending]

\* scraperapi_api_key[w]: the credential the instance of wrapper class w
\* holds; instances: the wrapper classes of which an instance exists.
\* environ: the value of the environment variable SCRAPERAPI_API_KEY, None
\* when it is unset. constructed: the last construction, its keyword
\* arguments (values) and what it ended in.
NoConstruction ==
    [cls |-> "", wrapper |-> "", values |-> [k \in {} |-> None],
     result |-> Pending]

\* tools[cls]: the attributes an instance of tool class cls exposes.
\* tasks[t]: the wrapper call task t runs, one of NumTasks tasks of one
\* event loop.
\*   pc       "idle", "get" (suspended in session.get), "text" (suspended in
\*            response.text()), "exit_response" and "exit_session" (in the
\*            exit of the response scope and of the session scope), "done"
\*   answer   what the transport has ready for the task's GET
\*   outcome  what the task resumed from its GET with
\*   fault    the fault raised while the body was read
\*   wres     what the wrapper method returns or raises
\*   session, response: the scopes the call has opened and closed
\*   did      the methods of the response the call has invoked, in order
\*   awaits   the points the call has suspended at, in order
\*   gets     the GETs the call has issued
TaskIds == 1..NumTasks

NoScopes == [opened |-> 0, closed |-> 0]

NoTask ==
    [pc |-> "idle", method |-> "", args |-> [url |-> None],
     req |-> NoRequest, answer |-> NoFault, outcome |-> NoFault,
     fault |-> NoFault, wres |-> Pending, session |-> NoScopes,
     response |-> NoScopes, did |-> <<>>, awaits |-> <<>>, gets |-> 0]

\* Both wrappers exist, each constructed with a credential passed to it.
Init ==
    /\ scraperapi_api_key \in [Wrappers -> Keys]
    /\ instances = Wrappers
    /\ environ = None
    /\ constructed = NoConstruction
    /\ call = NoCall
    /\ gets = 0
    /\ completed = 0
    /\ tools = ToolAttributes
    /\ tasks = [t \in TaskIds |-> NoTask]

\* The caller awaits each call and takes its result before it makes the next.
CanCall == call.pc = "idle" /\ completed < MaxCalls

\* Blocking with the GET issued a second time when the first attempt
\* ended in a failure.
Blocking_retry(tool, method, layer, a, kw, req, o, w, r) ==
    /\ call' = [pc |-> "done", tool |-> tool, method |-> method,
                mode |-> "blocking", layer |-> layer, args |-> a,
                kwargs |-> kw, wcalls |-> 1, req |-> req, outcome |-> o,
                fault |-> NoFault, wres |-> w, result |-> r]
    /\ gets' = gets + (IF w.kind = "raise" THEN 2 ELSE 1)
    /\ completed' = completed + 1
    /\ UNCHANGED <<wrappers, apart>>

\* A blocking call, from invocation to completion.
Blocking(tool, method, layer, a, kw, req, o, w, r) ==
    /\ call' = [pc |-> "done", tool |-> tool, method |-> method,
                mode |-> "blocking", layer |-> layer, args |-> a,
                kwargs |-> kw, wcalls |-> 1, req |-> req, outcome |-> o,
                fault |-> NoFault, wres |-> w, result |-> r]
    /\ gets' = gets + 1
    /\ completed' = completed + 1
    /\ UNCHANGED <<wrappers, apart>>

\* A non-blocking call up to its suspension in session.get.
Suspend(tool, method, layer, a, kw, req) ==
    /\ call' = [pc |-> "get", tool |-> tool, method |-> method,
                mode |-> "async", layer |-> layer, args |-> a,
                kwargs |-> kw, wcalls |-> 1, req |-> req,
                outcome |-> NoFault, fault |-> NoFault, wres |-> Pending,
                result |-> Pending]
    /\ gets' = gets + 1
    /\ UNCHANGED <<wrappers, apart, completed>>

\* The suspended call completes: the wrapper coroutine ends in w, which an
\* _arun awaiting it turns into its own result.
Finish(o, f, w) ==
    /\ call' = [call EXCEPT !.pc = "done", !.outcome = o, !.fault = f,
                            !.wres = w,
                            !.result = IF call.layer = "wrapper"
                                       THEN w ELSE ArunResult(call.tool, w)]
    /\ completed' = completed + 1
    /\ UNCHANGED <<wrappers, apart, gets>>

(* ------------------------------ actions ------------------------------- *)

\* ScraperAPIWrapper.scrape, utils.py 38-82.
scrape ==
    /\ CanCall
    /\ "ScraperAPIWrapper" \in instances
    /\ \E a \in ScrapeArgs, o \in Outcomes :
           LET kw  == a
               req == scrape_request(scraperapi_api_key["ScraperAPIWrapper"], kw)
               w   == scrape_result(req, o)
           IN  Blocking("scraperapi", "scrape", "wrapper", a, kw, req, o, w,
                        w)

\* ScraperAPITool._run, tools.py 110-134.
ScraperAPITool_run ==
    /\ CanCall
    /\ "ScraperAPIWrapper" \in instances
    /\ \E a \in ScrapeArgs, o \in Outcomes :
           LET kw  == ScraperAPITool_run_kwargs(a)
               req == scrape_request(scraperapi_api_key["ScraperAPIWrapper"], kw)
               w   == scrape_result(req, o)
           IN  Blocking("scraperapi", "scrape", "facade", a, kw, req, o, w,
                        ScraperAPITool_run_result(w))

\* ScraperAPIStructuredWrapper.google_search, utils.py 181-226.
google_search ==
    /\ CanCall
    /\ "ScraperAPIStructuredWrapper" \in instances
    /\ \E a \in GoogleArgs, o \in Outcomes :
           LET kw  == a
               req == google_search_request(scraperapi_api_key["ScraperAPIStructuredWrapper"], kw)
               w   == _make_request_result(req, o)
           IN  Blocking("scraperapi_google_search", "google_search", "wrapper", a, kw, req, o, w,
                        w)

\* ScraperAPIGoogleSearchTool._run, tools.py 250-282.
ScraperAPIGoogleSearchTool_run ==
    /\ CanCall
    /\ "ScraperAPIStructuredWrapper" \in instances
    /\ \E a \in GoogleArgs, o \in Outcomes :
           LET kw  == ScraperAPIGoogleSearchTool_run_kwargs(a)
               req == google_search_request(scraperapi_api_key["ScraperAPIStructuredWrapper"], kw)
               w   == _make_request_result(req, o)
           IN  Blocking("scraperapi_google_search", "google_search", "facade", a, kw, req, o, w,
                        ScraperAPIGoogleSearchTool_run_result(w))

\* ScraperAPIStructuredWrapper.amazon_search, utils.py 275-302.
amazon_search ==
    /\ CanCall
    /\ "ScraperAPIStructuredWrapper" \in instances
    /\ \E a \in AmazonArgs, o \in Outcomes :
           LET kw  == a
               req == amazon_search_request(scraperapi_api_key["ScraperAPIStructuredWrapper"], kw)
               w   == _make_request_result(req, o)
           IN  Blocking("scraperapi_amazon_search", "amazon_search", "wrapper", a, kw, req, o, w,
                        w)

\* ScraperAPIAmazonSearchTool._run, tools.py 390-410.
ScraperAPIAmazonSearchTool_run ==
    /\ CanCall
    /\ "ScraperAPIStructuredWrapper" \in instances
    /\ \E a \in AmazonArgs, o \in Outcomes :
           LET kw  == ScraperAPIAmazonSearchTool_run_kwargs(a)
               req == amazon_search_request(scraperapi_api_key["ScraperAPIStructuredWrapper"], kw)
               w   == _make_request_result(req, o)
           IN  Blocking("scraperapi_amazon_search", "amazon_search", "facade", a, kw, req, o, w,
                        ScraperAPIAmazonSearchTool_run_result(w))

\* ScraperAPIWrapper.scrape_async, utils.py 84-127, up to session.get.
scrape_async ==
    /\ CanCall
    /\ "ScraperAPIWrapper" \in instances
    /\ \E a \in ScrapeArgs :
           LET kw == a
           IN  Suspend("scraperapi", "scrape_async", "wrapper", a, kw,
                       scrape_async_request(scraperapi_api_key["ScraperAPIWrapper"], kw))

\* ScraperAPITool._arun, tools.py 136-150, up to session.get.
ScraperAPITool_arun ==
    /\ CanCall
    /\ "ScraperAPIWrapper" \in instances
    /\ \E a \in ScrapeArgs :
           LET kw == ScraperAPITool_arun_kwargs(a)
           IN  Suspend("scraperapi", "scrape_async", "facade", a, kw,
                       scrape_async_request(scraperapi_api_key["ScraperAPIWrapper"], kw))

\* ScraperAPIStructuredWrapper.google_search_async, utils.py 228-273.
google_search_async ==
    /\ CanCall
    /\ "ScraperAPIStructuredWrapper" \in instances
    /\ \E a \in GoogleArgs :
           LET kw == a
           IN  Suspend("scraperapi_google_search", "google_search_async", "wrapper", a, kw,
                       google_search_async_request(scraperapi_api_key["ScraperAPIStructuredWrapper"], kw))

\* ScraperAPIGoogleSearchTool._arun, tools.py 284-302.
ScraperAPIGoogleSearchTool_arun ==
    /\ CanCall
    /\ "ScraperAPIStructuredWrapper" \in instances
    /\ \E a \in GoogleArgs :
           LET kw == ScraperAPIGoogleSearchTool_arun_kwargs(a)
           IN  Suspend("scraperapi_google_search", "google_search_async", "facade", a, kw,
                       google_search_async_request(scraperapi_api_key["ScraperAPIStructuredWrapper"], kw))

\* ScraperAPIStructuredWrapper.amazon_search_async, utils.py 304-331.
amazon_search_async ==
    /\ CanCall
    /\ "ScraperAPIStructuredWrapper" \in instances
    /\ \E a \in AmazonArgs :
           LET kw == a
           IN  Suspend("scraperapi_amazon_search", "amazon_search_async", "wrapper", a, kw,
                       amazon_search_async_request(scraperapi_api_key["ScraperAPIStructuredWrapper"], kw))

\* ScraperAPIAmazonSearchTool._arun, tools.py 412-424.
ScraperAPIAmazonSearchTool_arun ==
    /\ CanCall
    /\ "ScraperAPIStructuredWrapper" \in instances
    /\ \E a \in AmazonArgs :
           LET kw == ScraperAPIAmazonSearchTool_arun_kwargs(a)
           IN  Suspend("scraperapi_amazon_search", "amazon_search_async", "facade", a, kw,
                       amazon_search_async_request(scraperapi_api_key["ScraperAPIStructuredWrapper"], kw))

\* scrape_async resumes from session.get, utils.py 127-131: with a fault,
\* which propagates, or with a response.
scrape_async_get ==
    /\ call.pc = "get"
    /\ call.method = "scrape_async"
    /\ \E o \in Outcomes :
        IF o.kind = "fault"
           THEN Finish(o, NoFault, Raise(o.exc, o.msg))
           ELSE LET w == scrape_async_on_response(call.req, o)
                IN  IF w.kind = "await"
                    THEN /\ call' = [call EXCEPT !.pc = "text", !.outcome = o]
                         /\ UNCHANGED <<wrappers, apart, gets, completed>>
                    ELSE Finish(o, NoFault, w)

\* scrape_async resumes from response.text(), utils.py 129: with the body,
\* or with a fault raised while it was read.
scrape_async_text ==
    /\ call.pc = "text"
    /\ call.method = "scrape_async"
    /\ \E f \in {NoFault} \cup Faults :
        Finish(call.outcome, f,
                  IF f = NoFault THEN scrape_async_on_text(call.outcome.body)
                  ELSE Raise(f.exc, f.msg))

\* _make_request_async resumes from session.get, utils.py 175-179.
_make_request_async_get ==
    /\ call.pc = "get"
    /\ call.method \in {"google_search_async", "amazon_search_async"}
    /\ \E o \in Outcomes :
        IF o.kind = "fault"
           THEN Finish(o, NoFault, Raise(o.exc, o.msg))
           ELSE LET w == _make_request_async_on_response(call.req, o)
                IN  IF w.kind = "await"
                    THEN /\ call' = [call EXCEPT !.pc = "text", !.outcome = o]
                         /\ UNCHANGED <<wrappers, apart, gets, completed>>
                    ELSE Finish(o, NoFault, w)

\* _make_request_async resumes from response.text(), utils.py 177.
_make_request_async_text ==
    /\ call.pc = "text"
    /\ call.method \in {"google_search_async", "amazon_search_async"}
    /\ \E f \in {NoFault} \cup Faults :
        Finish(call.outcome, f,
                  IF f = NoFault
                  THEN _make_request_async_on_text(call.outcome.body)
                  ELSE Raise(f.exc, f.msg))

\* The caller takes the result of its completed call; the call's request,
\* response and result are discarded with it.
Collect ==
    /\ call.pc = "done"
    /\ call' = NoCall
    /\ UNCHANGED <<wrappers, apart, gets, completed>>

Next ==
    \/ scrape
    \/ ScraperAPITool_run
    \/ google_search
    \/ ScraperAPIGoogleSearchTool_run
    \/ amazon_search
    \/ ScraperAPIAmazonSearchTool_run
    \/ scrape_async
    \/ ScraperAPITool_arun
    \/ google_search_async
    \/ ScraperAPIGoogleSearchTool_arun
    \/ amazon_search_async
    \/ ScraperAPIAmazonSearchTool_arun
    \/ scrape_async_get
    \/ scrape_async_text
    \/ _make_request_async_get
    \/ _make_request_async_text
    \/ Collect

Spec == Init /\ [][Next]_vars

(* ---------------------------- construction ---------------------------- *)

\* The values of the environment variable: unset, empty, a credential.
EnvValues == {None, StrV(""), StrV("env-key")}

\* The keyword arguments of a wrapper's constructor: none, or the credential
\* as an empty or a non-empty string.
ConstructorValues ==
    {[k \in {} |-> None]}
        \cup {[k \in {"scraperapi_api_key"} |-> v] :
                 v \in {StrV("")} \cup {StrV(key) : key \in Keys}}

\* langchain_core's get_from_dict_or_env(values, key, env_key), called at
\* utils.py 31-33 and 147-149: values[key] when it is there and true, else
\* the environment variable when it is set and true, else a ValueError
\* (its message is written here without the backquotes around the names).
get_from_dict_or_env(values, key, env_key, env) ==
    IF key \in DOMAIN values /\ Truthy(values[key]) THEN Return(values[key])
    ELSE IF Truthy(env) THEN Return(env)
    ELSE Raise("ValueError",
               "Did not find " \o key
                   \o ", please add an environment variable " \o env_key
                   \o " which contains it, or pass " \o key
                   \o " as a named parameter.")

\* validate_environment with the credential taken from values as it is
\* whenever the key is there, empty or not.
validate_environment_any_value(values, env) ==
    IF "scraperapi_api_key" \in DOMAIN values THEN Return(values)
    ELSE IF Truthy(env)
    THEN Return(Put(values, "scraperapi_api_key", env))
    ELSE Raise("ValueError", "Did not find scraperapi_api_key")

\* validate_environment with the environment variable read first.
validate_environment_env_first(values, env) ==
    LET found == get_from_dict_or_env([k \in {} |-> None],
                                      "scraperapi_api_key",
                                      "SCRAPERAPI_API_KEY", env)
        given == get_from_dict_or_env(values, "scraperapi_api_key",
                                      "SCRAPERAPI_API_KEY", env)
    IN  IF found.kind = "return"
        THEN Return(Put(values, "scraperapi_api_key", found.val))
        ELSE IF given.kind = "return"
        THEN Return(Put(values, "scraperapi_api_key", given.val))
        ELSE given

\* ScraperAPIWrapper.validate_environment, utils.py 27-36: the values with
\* the credential found, or the failure of the lookup.
ScraperAPIWrapper_validate_environment(values, env) ==
    LET scraperapi_api_key_found ==
            get_from_dict_or_env(values, "scraperapi_api_key",
                                 "SCRAPERAPI_API_KEY", env)
    IN  IF scraperapi_api_key_found.kind = "raise"
        THEN scraperapi_api_key_found
        ELSE Return(Put(values, "scraperapi_api_key",
                        scraperapi_api_key_found.val))

\* validate_environment with an empty credential put in place of a missing
\* one.
validate_environment_default_empty(values, env) ==
    LET found == get_from_dict_or_env(values, "scraperapi_api_key",
                                      "SCRAPERAPI_API_KEY", env)
    IN  Return(Put(values, "scraperapi_api_key",
                   IF found.kind = "raise" THEN StrV("") ELSE found.val))

\* ScraperAPIStructuredWrapper.validate_environment, utils.py 143-152.
ScraperAPIStructuredWrapper_validate_environment(values, env) ==
    LET scraperapi_api_key_found ==
            get_from_dict_or_env(values, "scraperapi_api_key",
                                 "SCRAPERAPI_API_KEY", env)
    IN  IF scraperapi_api_key_found.kind = "raise"
        THEN scraperapi_api_key_found
        ELSE Return(Put(values, "scraperapi_api_key",
                        scraperapi_api_key_found.val))

\* The validator of wrapper class w.
ValidateEnvironment(w, values, env) ==
    IF w = "ScraperAPIWrapper"
    THEN ScraperAPIWrapper_validate_environment(values, env)
    ELSE ScraperAPIStructuredWrapper_validate_environment(values, env)

\* The construction of an instance of wrapper class w, of which none is in
\* use, asked for by cls (w
\* itself, or a tool through its default_factory): the "before" validator
\* runs; its failure leaves the constructor as a ValidationError and no
\* instance comes to exist; otherwise the instance holds the credential of
\* the validated values.
Construct(cls, w, values) ==
    LET validated == ValidateEnvironment(w, values, environ)
    IN  /\ IF validated.kind = "raise"
           THEN /\ constructed' =
                       [cls |-> cls, wrapper |-> w, values |-> values,
                        result |-> Raise("ValidationError",
                                         "1 validation error for " \o w
                                             \o ": Value error, "
                                             \o PyStr(validated.val))]
                /\ UNCHANGED <<scraperapi_api_key, instances>>
           ELSE /\ constructed' =
                       [cls |-> cls, wrapper |-> w, values |-> values,
                        result |-> Return(None)]
                /\ scraperapi_api_key' =
                       [scraperapi_api_key EXCEPT
                           ![w] = PyStr(validated.val["scraperapi_api_key"])]
                /\ instances' = instances \cup {w}
        /\ UNCHANGED <<environ, call, gets, completed, apart>>

\* ScraperAPIWrapper(...), utils.py 18-36.
ScraperAPIWrapper_init ==
    /\ "ScraperAPIWrapper" \notin instances
    /\ \E values \in ConstructorValues :
           Construct("ScraperAPIWrapper", "ScraperAPIWrapper", values)

\* ScraperAPIStructuredWrapper(...), utils.py 134-152.
ScraperAPIStructuredWrapper_init ==
    /\ "ScraperAPIStructuredWrapper" \notin instances
    /\ \E values \in ConstructorValues :
           Construct("ScraperAPIStructuredWrapper",
                     "ScraperAPIStructuredWrapper", values)

\* ScraperAPITool(), tools.py 108: api_wrapper from its default_factory,
\* ScraperAPIWrapper with no argument.
ScraperAPITool_init ==
    /\ "ScraperAPIWrapper" \notin instances
    /\ Construct("ScraperAPITool", "ScraperAPIWrapper", [k \in {} |-> None])

\* ScraperAPIGoogleSearchTool(), tools.py 246-248.
ScraperAPIGoogleSearchTool_init ==
    /\ "ScraperAPIStructuredWrapper" \notin instances
    /\ Construct("ScraperAPIGoogleSearchTool", "ScraperAPIStructuredWrapper",
                 [k \in {} |-> None])

\* ScraperAPIAmazonSearchTool(), tools.py 386-388.
ScraperAPIAmazonSearchTool_init ==
    /\ "ScraperAPIStructuredWrapper" \notin instances
    /\ Construct("ScraperAPIAmazonSearchTool", "ScraperAPIStructuredWrapper",
                 [k \in {} |-> None])

\* An instance goes out of use; its class can be constructed again.
Discard ==
    \E w \in instances :
        /\ instances' = instances \ {w}
        /\ scraperapi_api_key' = [scraperapi_api_key EXCEPT ![w] = ""]
        /\ UNCHANGED <<environ, constructed, call, gets, completed, apart>>

\* Nothing is constructed yet; the environment variable has any value.
InitConstruct ==
    /\ scraperapi_api_key = [w \in Wrappers |-> ""]
    /\ instances = {}
    /\ environ \in EnvValues
    /\ constructed = NoConstruction
    /\ call = NoCall
    /\ gets = 0
    /\ completed = 0
    /\ tools = ToolAttributes
    /\ tasks = [t \in TaskIds |-> NoTask]

NextConstruct ==
    \/ ScraperAPIWrapper_init
    \/ ScraperAPIStructuredWrapper_init
    \/ ScraperAPITool_init
    \/ ScraperAPIGoogleSearchTool_init
    \/ ScraperAPIAmazonSearchTool_init
    \/ Discard

ConstructSpec == InitConstruct /\ [][NextConstruct]_vars

(* -------------------------- tool invocation -------------------------- *)

\* A field of an input schema: its annotation ("str", "bool", "int" or
\* "literal" with the strings allowed), and whether it is declared with
\* Field(...), required, or with Field(None), Optional.
SchemaField(type, required, literals) ==
    [type |-> type, required |-> required, literals |-> literals]

\* tools.py 15-47.
ScraperAPIToolInput ==
    [url           |-> SchemaField("str", TRUE, {}),
     output_format |-> SchemaField("literal", FALSE, {"text", "markdown"}),
     country_code  |-> SchemaField("str", FALSE, {}),
     device_type   |-> SchemaField("literal", FALSE, {"desktop", "mobile"}),
     premium       |-> SchemaField("bool", FALSE, {}),
     render        |-> SchemaField("bool", FALSE, {}),
     keep_headers  |-> SchemaField("bool", FALSE, {})]

\* tools.py 163-196.
ScraperAPIGoogleSearchToolInput ==
    [query         |-> SchemaField("str", TRUE, {}),
     country_code  |-> SchemaField("str", FALSE, {}),
     tld           |-> SchemaField("str", FALSE, {}),
     output_format |-> SchemaField("literal", FALSE, {"json", "csv"}),
     uule          |-> SchemaField("str", FALSE, {}),
     num           |-> SchemaField("int", FALSE, {}),
     hl            |-> SchemaField("str", FALSE, {}),
     gl            |-> SchemaField("str", FALSE, {}),
     ie            |-> SchemaField("str", FALSE, {}),
     oe            |-> SchemaField("str", FALSE, {}),
     start         |-> SchemaField("int", FALSE, {})]

\* tools.py 319-336.
ScraperAPIAmazonSearchToolInput ==
    [query         |-> SchemaField("str", TRUE, {}),
     country_code  |-> SchemaField("str", FALSE, {}),
     tld           |-> SchemaField("str", FALSE, {}),
     output_format |-> SchemaField("literal", FALSE, {"json", "csv"}),
     page          |-> SchemaField("int", FALSE, {})]

\* Not a value of the field: what a failed field validation leaves.
Invalid == [tag |-> "invalid", val |-> ""]

Digits == <<"0", "1", "2", "3", "4", "5", "6", "7", "8", "9">>

IsDigit(c) == \E i \in 1..10 : Digits[i] = c

DigitValue(c) == (CHOOSE i \in 1..10 : Digits[i] = c) - 1

\* A string is a decimal numeral.
IsNumeral(s) ==
    /\ Len(s) > 0
    /\ \A i \in 1..Len(s) : IsDigit(SubSeq(s, i, i))

\* The number a decimal numeral stands for.
RECURSIVE StrToNat(_)
StrToNat(s) ==
    IF Len(s) = 0 THEN 0
    ELSE 10 * StrToNat(SubSeq(s, 1, Len(s) - 1))
             + DigitValue(SubSeq(s, Len(s), Len(s)))

\* The strings the validation reads as booleans.
BoolTrueStrings == {"1", "on", "t", "true", "y", "yes"}

BoolFalseStrings == {"0", "off", "f", "false", "n", "no"}

\* ValidateField with a Literal annotation read as a plain str.
ValidateField_literal_as_str(f, v) ==
    IF v = None
    THEN IF f.required THEN Invalid ELSE None
    ELSE CASE f.type = "str" -> IF v.tag = "str" THEN v ELSE Invalid
           [] f.type = "literal" -> IF v.tag = "str" THEN v ELSE Invalid
           [] f.type = "bool" -> IF v.tag = "bool" THEN v ELSE Invalid
           [] f.type = "int" -> IF v.tag = "int" THEN v ELSE Invalid

\* The validation of one supplied value against a field's annotation, as
\* args_schema.model_validate does it for the declarations of tools.py
\* 23-47, 166-196 and 322-336: None for an Optional field; a str for str; a
\* member of the set for Literal; a bool, or an integer or string that reads
\* as one, for bool; an int, a bool, or a decimal numeral for int.
ValidateField(f, v) ==
    IF v = None
    THEN IF f.required THEN Invalid ELSE None
    ELSE CASE f.type = "str" -> IF v.tag = "str" THEN v ELSE Invalid
           [] f.type = "literal" ->
                  IF v.tag = "str" /\ v.val \in f.literals THEN v ELSE Invalid
           [] f.type = "bool" ->
                  (CASE v.tag = "bool" -> v
                     [] v.tag = "int" ->
                            IF v.val = "1" THEN BoolV(TRUE)
                            ELSE IF v.val = "0" THEN BoolV(FALSE) ELSE Invalid
                     [] v.tag = "str" ->
                            IF v.val \in BoolTrueStrings THEN BoolV(TRUE)
                            ELSE IF v.val \in BoolFalseStrings
                            THEN BoolV(FALSE) ELSE Invalid)
           [] f.type = "int" ->
                  (CASE v.tag = "int" -> v
                     [] v.tag = "bool" ->
                            IF v.val = "True" THEN IntV(1) ELSE IntV(0)
                     [] v.tag = "str" ->
                            IF IsNumeral(v.val) THEN IntV(StrToNat(v.val))
                            ELSE Invalid)

\* The fields of `schema` the input `raw` fails: a required one left out, or
\* one whose value does not validate.
FieldErrors(schema, raw) ==
    {k \in DOMAIN schema :
        IF k \in DOMAIN raw THEN ValidateField(schema[k], raw[k]) = Invalid
        ELSE schema[k].required}

\* BaseTool's parsing of a dict input against args_schema, reached from
\* invoke and ainvoke: a ValidationError counting the failed fields, or the
\* keyword arguments of _run: the validated value of each key of the input,
\* and the default of _run, None, for each parameter the input left out.
ParseInput(name, schema, raw) ==
    LET errors == FieldErrors(schema, raw)
        n      == Cardinality(errors)
    IN  IF n > 0
        THEN [ok     |-> FALSE,
              values |-> [k \in {} |-> None],
              error  |-> Raise("ValidationError",
                               ToString(n) \o " validation error"
                                   \o (IF n > 1 THEN "s" ELSE "")
                                   \o " for " \o name)]
        ELSE [ok     |-> TRUE,
              values |-> [k \in DOMAIN schema |->
                              IF k \in DOMAIN raw
                              THEN ValidateField(schema[k], raw[k])
                              ELSE None],
              error  |-> Pending]

\* The values an invocation's input gives each field: Conforming, the ones
\* the field's declaration admits (as they are, or read as the declared
\* type); Violating, the ones it does not admit.
ScrapeConforming ==
    [url           |-> {StrV("http://example.com"), StrV("")},
     output_format |-> {StrV("text"), StrV("markdown")},
     country_code  |-> {StrV("us")},
     device_type   |-> {StrV("mobile")},
     premium       |-> {BoolV(TRUE), StrV("yes")},
     render        |-> {BoolV(FALSE), IntV(1)},
     keep_headers  |-> {BoolV(TRUE)}]

ScrapeViolating ==
    [url           |-> {None, IntV(5)},
     output_format |-> {StrV("pdf"), StrV("")},
     country_code  |-> {IntV(1)},
     device_type   |-> {StrV("tablet")},
     premium       |-> {StrV("maybe")},
     render        |-> {IntV(2)},
     keep_headers  |-> {StrV("")}]

GoogleConforming ==
    [query         |-> {StrV("pizza")},
     country_code  |-> {StrV("us")},
     tld           |-> {StrV("com")},
     output_format |-> {StrV("json"), StrV("csv")},
     uule          |-> {StrV("w+CAIQ")},
     num           |-> {IntV(10), StrV("10")},
     hl            |-> {StrV("DE")},
     gl            |-> {StrV("DE")},
     ie            |-> {StrV("UTF8")},
     oe            |-> {StrV("UTF8")},
     start         |-> {IntV(0)}]

GoogleViolating ==
    [query         |-> {None, BoolV(TRUE)},
     country_code  |-> {BoolV(FALSE)},
     tld           |-> {IntV(1)},
     output_format |-> {StrV("xml"), StrV("JSON")},
     uule          |-> {IntV(0)},
     num           |-> {StrV("ten")},
     hl            |-> {IntV(0)},
     gl            |-> {BoolV(TRUE)},
     ie            |-> {IntV(8)},
     oe            |-> {IntV(8)},
     start         |-> {StrV("")}]

AmazonConforming ==
    [query         |-> {StrV("shoes")},
     country_code  |-> {StrV("uk")},
     tld           |-> {StrV("co.uk")},
     output_format |-> {StrV("json"), StrV("csv")},
     page          |-> {IntV(2), StrV("2")}]

AmazonViolating ==
    [query         |-> {None, IntV(7)},
     country_code  |-> {IntV(44)},
     tld           |-> {BoolV(TRUE)},
     output_format |-> {StrV("text")},
     page          |-> {StrV("two")}]

\* The dict inputs of an invocation: the required field `name` left out or
\* given, and at most MaxSupplied of the other fields given, each with a
\* conforming or a violating value.
RawInputs(name, conforming, violating) ==
    LET dom    == [k \in DOMAIN conforming |-> conforming[k] \cup violating[k]]
        others == DOMAIN dom \ {name}
        vals   == UNION {dom[k] : k \in DOMAIN dom}
    IN  UNION { { f \in [S -> vals] : \A k \in S : f[k] \in dom[k] } :
                S \in {T \in SUBSET DOMAIN dom :
                          Cardinality(T \cap others) <= MaxSupplied} }

ScrapeInputs == RawInputs("url", ScrapeConforming, ScrapeViolating)

GoogleInputs == RawInputs("query", GoogleConforming, GoogleViolating)

AmazonInputs == RawInputs("query", AmazonConforming, AmazonViolating)

\* An invocation whose input failed the validation: the ValidationError
\* leaves invoke; _run was not entered.
Reject(tool, mode, raw, error) ==
    /\ call' = [pc |-> "done", tool |-> tool, method |-> "", mode |-> mode,
                layer |-> "invoke", args |-> raw,
                kwargs |-> [k \in {} |-> None], wcalls |-> 0,
                req |-> NoRequest, outcome |-> NoFault, fault |-> NoFault,
                wres |-> Pending, result |-> error]
    /\ UNCHANGED <<wrappers, apart, gets, completed>>

\* ScraperAPITool.invoke: the input is validated against args_schema
\* (tools.py 105), then _run (tools.py 110-134) runs with the parsed input.
ScraperAPITool_invoke ==
    /\ CanCall
    /\ "ScraperAPIWrapper" \in instances
    /\ \E raw \in ScrapeInputs :
           LET parsed == ParseInput(tools["ScraperAPITool"].args_schema,
                                    ScraperAPIToolInput, raw)
           IN  IF ~parsed.ok
               THEN Reject("scraperapi", "blocking", raw, parsed.error)
               ELSE \E o \in Outcomes :
                        LET kw  == ScraperAPITool_run_kwargs(parsed.values)
                            req == scrape_request(
                                       scraperapi_api_key["ScraperAPIWrapper"],
                                       kw)
                            w   == scrape_result(req, o)
                        IN  Blocking("scraperapi", "scrape", "invoke", raw, kw,
                                     req, o, w, ScraperAPITool_run_result(w))

\* ScraperAPIGoogleSearchTool.invoke: args_schema tools.py 244, _run
\* tools.py 250-282.
ScraperAPIGoogleSearchTool_invoke ==
    /\ CanCall
    /\ "ScraperAPIStructuredWrapper" \in instances
    /\ \E raw \in GoogleInputs :
           LET parsed == ParseInput(
                             tools["ScraperAPIGoogleSearchTool"].args_schema,
                             ScraperAPIGoogleSearchToolInput, raw)
           IN  IF ~parsed.ok
               THEN Reject("scraperapi_google_search", "blocking", raw,
                           parsed.error)
               ELSE \E o \in Outcomes :
                        LET kw  == ScraperAPIGoogleSearchTool_run_kwargs(
                                       parsed.values)
                            req == google_search_request(
                                       scraperapi_api_key[
                                           "ScraperAPIStructuredWrapper"], kw)
                            w   == _make_request_result(req, o)
                        IN  Blocking("scraperapi_google_search",
                                     "google_search", "invoke", raw, kw, req,
                                     o, w,
                                     ScraperAPIGoogleSearchTool_run_result(w))

\* ScraperAPIAmazonSearchTool.invoke: args_schema tools.py 384, _run
\* tools.py 390-410.
ScraperAPIAmazonSearchTool_invoke ==
    /\ CanCall
    /\ "ScraperAPIStructuredWrapper" \in instances
    /\ \E raw \in AmazonInputs :
           LET parsed == ParseInput(
                             tools["ScraperAPIAmazonSearchTool"].args_schema,
                             ScraperAPIAmazonSearchToolInput, raw)
           IN  IF ~parsed.ok
               THEN Reject("scraperapi_amazon_search", "blocking", raw,
                           parsed.error)
               ELSE \E o \in Outcomes :
                        LET kw  == ScraperAPIAmazonSearchTool_run_kwargs(
                                       parsed.values)
                            req == amazon_search_request(
                                       scraperapi_api_key[
                                           "ScraperAPIStructuredWrapper"], kw)
                            w   == _make_request_result(req, o)
                        IN  Blocking("scraperapi_amazon_search",
                                     "amazon_search", "invoke", raw, kw, req,
                                     o, w,
                                     ScraperAPIAmazonSearchTool_run_result(w))

\* ScraperAPITool.ainvoke: the same validation, then _arun (tools.py
\* 136-160) up to session.get.
ScraperAPITool_ainvoke ==
    /\ CanCall
    /\ "ScraperAPIWrapper" \in instances
    /\ \E raw \in ScrapeInputs :
           LET parsed == ParseInput(tools["ScraperAPITool"].args_schema,
                                    ScraperAPIToolInput, raw)
               kw     == ScraperAPITool_arun_kwargs(parsed.values)
           IN  IF ~parsed.ok
               THEN Reject("scraperapi", "async", raw, parsed.error)
               ELSE Suspend("scraperapi", "scrape_async", "invoke", raw, kw,
                            scrape_async_request(
                                scraperapi_api_key["ScraperAPIWrapper"], kw))

\* ScraperAPIGoogleSearchTool.ainvoke, then _arun (tools.py 284-316).
ScraperAPIGoogleSearchTool_ainvoke ==
    /\ CanCall
    /\ "ScraperAPIStructuredWrapper" \in instances
    /\ \E raw \in GoogleInputs :
           LET parsed == ParseInput(
                             tools["ScraperAPIGoogleSearchTool"].args_schema,
                             ScraperAPIGoogleSearchToolInput, raw)
               kw     == ScraperAPIGoogleSearchTool_arun_kwargs(parsed.values)
           IN  IF ~parsed.ok
               THEN Reject("scraperapi_google_search", "async", raw,
                           parsed.error)
               ELSE Suspend("scraperapi_google_search", "google_search_async",
                            "invoke", raw, kw,
                            google_search_async_request(
                                scraperapi_api_key[
                                    "ScraperAPIStructuredWrapper"], kw))

\* ScraperAPIAmazonSearchTool.ainvoke, then _arun (tools.py 412-432).
ScraperAPIAmazonSearchTool_ainvoke ==
    /\ CanCall
    /\ "ScraperAPIStructuredWrapper" \in instances
    /\ \E raw \in AmazonInputs :
           LET parsed == ParseInput(
                             tools["ScraperAPIAmazonSearchTool"].args_schema,
                             ScraperAPIAmazonSearchToolInput, raw)
               kw     == ScraperAPIAmazonSearchTool_arun_kwargs(parsed.values)
           IN  IF ~parsed.ok
               THEN Reject("scraperapi_amazon_search", "async", raw,
                           parsed.error)
               ELSE Suspend("scraperapi_amazon_search", "amazon_search_async",
                            "invoke", raw, kw,
                            amazon_search_async_request(
                                scraperapi_api_key[
                                    "ScraperAPIStructuredWrapper"], kw))

\* The tools are invoked through invoke and ainvoke; a suspended _arun
\* resumes as in Next.
NextInvoke ==
    \/ ScraperAPITool_invoke
    \/ ScraperAPIGoogleSearchTool_invoke
    \/ ScraperAPIAmazonSearchTool_invoke
    \/ ScraperAPITool_ainvoke
    \/ ScraperAPIGoogleSearchTool_ainvoke
    \/ ScraperAPIAmazonSearchTool_ainvoke
    \/ scrape_async_get
    \/ scrape_async_text
    \/ _make_request_async_get
    \/ _make_request_async_text
    \/ Collect

InvokeSpec == Init /\ [][NextInvoke]_vars

(* -------------------------- concurrent tasks -------------------------- *)

AsyncTaskMethods ==
    {"scrape_async", "google_search_async", "amazon_search_async"}

BlockingTaskMethods == {"scrape", "google_search", "amazon_search"}

\* The arguments task t calls `method` with: its own url or query, the
\* optional arguments at their default but for the country of an Amazon
\* search.
TaskArgs(t, method) ==
    CASE method \in {"scrape", "scrape_async"} ->
             WithRequired("url", StrV("http://example.com/" \o ToString(t)),
                          [k \in DOMAIN ScrapeDomain |-> None])
      [] method \in {"google_search", "google_search_async"} ->
             WithRequired("query", StrV("pizza " \o ToString(t)),
                          [k \in DOMAIN GoogleDomain |-> None])
      [] method \in {"amazon_search", "amazon_search_async"} ->
             WithRequired("query", StrV("shoes " \o ToString(t)),
                          [k \in DOMAIN AmazonDomain |->
                              IF k = "country_code" THEN StrV("uk")
                              ELSE None])

\* The wrapper class that defines `method`.
WrapperOf(method) ==
    IF method \in {"scrape", "scrape_async"} THEN "ScraperAPIWrapper"
    ELSE "ScraperAPIStructuredWrapper"

\* The GET `method` issues for the credential `key` and the arguments a.
RequestOf(method, key, a) ==
    CASE method = "scrape" -> scrape_request(key, a)
      [] method = "scrape_async" -> scrape_async_request(key, a)
      [] method = "google_search" -> google_search_request(key, a)
      [] method = "google_search_async" -> google_search_async_request(key, a)
      [] method = "amazon_search" -> amazon_search_request(key, a)
      [] method = "amazon_search_async" -> amazon_search_async_request(key, a)

\* What the remote end answers a request with: a status of 200, 204 or 404
\* and a body made for the url or query it was asked for, or a fault of the
\* connection.
TaskOutcomes(req) ==
    LET asked == IF "url" \in DOMAIN req.params THEN req.params.url
                 ELSE req.params.query
    IN  { [kind |-> "response", status |-> st,
           body |-> "<html>" \o PyStr(asked) \o "</html>", exc |-> "",
           msg |-> ""] : st \in {200, 204, 404} }
            \cup {f \in Faults : f.exc = "ConnectionError"}

\* The methods of the response a blocking call invokes, utils.py 80-82 and
\* 162-164: none when requests.get raised; raise_for_status(), and the text
\* when that raised nothing.
requests_response_actions(req, o) ==
    IF o.kind = "fault" THEN <<>>
    ELSE IF requests_raise_for_status(req, o).kind = "raise"
    THEN <<"raise_for_status">>
    ELSE <<"raise_for_status", "text">>

\* The methods of the response a non-blocking call invokes once session.get
\* has resumed with a response, utils.py 128-131 and 176-179: text() in the
\* branch of status 200, raise_for_status() in the other.
aiohttp_response_actions(w) ==
    IF w.kind = "await" THEN <<"text">> ELSE <<"raise_for_status">>

\* async_with_exit closing the scope only when the block was left by a
\* return.
async_with_exit_on_return(scope, w) ==
    IF w.kind = "return" THEN [scope EXCEPT !.closed = @ + 1] ELSE scope

\* The exit of an `async with` block, utils.py 126-127 and 174-175: the
\* scope is closed, whether the block was left by a return or by a raise.
async_with_exit(scope, w) == [scope EXCEPT !.closed = @ + 1]

\* Delivered with one response slot shared by the tasks: a task resumes
\* with the answer that is ready first, its own or another task's.
Delivered_shared(t) ==
    LET ready == {u \in TaskIds :
                     tasks[u].pc = "get" /\ tasks[u].answer.kind # "none"}
    IN  IF ready = {} THEN tasks[t].answer
        ELSE tasks[CHOOSE u \in ready : \A v \in ready : u <= v].answer

\* What session.get resumes task t with, utils.py 127 and 175: the answer
\* to the GET of the task's own session.
Delivered(t) == tasks[t].answer

\* Task t runs a blocking wrapper method from its call to its return: it
\* never yields, so no other task runs in between.
BlockingTask(t, method, req, o, w) ==
    tasks' = [tasks EXCEPT ![t] =
                 [pc |-> "done", method |-> method,
                  args |-> TaskArgs(t, method), req |-> req, answer |-> o,
                  outcome |-> o, fault |-> NoFault, wres |-> w,
                  session |-> NoScopes, response |-> NoScopes,
                  did |-> requests_response_actions(req, o),
                  awaits |-> <<>>, gets |-> 1]]

\* ScraperAPIWrapper.scrape run by a task, utils.py 38-82.
task_scrape ==
    /\ "ScraperAPIWrapper" \in instances
    /\ \E t \in TaskIds :
           /\ tasks[t].pc = "idle"
           /\ LET req == RequestOf("scrape",
                                   scraperapi_api_key["ScraperAPIWrapper"],
                                   TaskArgs(t, "scrape"))
              IN  \E o \in TaskOutcomes(req) :
                      BlockingTask(t, "scrape", req, o, scrape_result(req, o))
    /\ UNCHANGED <<wrappers, call, gets, completed, tools>>

\* google_search and amazon_search run by a task, through _make_request,
\* utils.py 154-164.
task_make_request ==
    /\ "ScraperAPIStructuredWrapper" \in instances
    /\ \E t \in TaskIds, method \in {"google_search", "amazon_search"} :
           /\ tasks[t].pc = "idle"
           /\ LET req == RequestOf(
                             method,
                             scraperapi_api_key["ScraperAPIStructuredWrapper"],
                             TaskArgs(t, method))
              IN  \E o \in TaskOutcomes(req) :
                      BlockingTask(t, method, req, o,
                                   _make_request_result(req, o))
    /\ UNCHANGED <<wrappers, call, gets, completed, tools>>

\* A non-blocking wrapper method up to its suspension in session.get: the
\* params are built, the session scope is entered and the GET is issued.
AsyncTask(t, method) ==
    tasks' = [tasks EXCEPT ![t] =
                 [NoTask EXCEPT
                     !.pc = "get", !.method = method,
                     !.args = TaskArgs(t, method),
                     !.req = RequestOf(method,
                                       scraperapi_api_key[WrapperOf(method)],
                                       TaskArgs(t, method)),
                     !.session = [opened |-> 1, closed |-> 0],
                     !.awaits = <<"get">>, !.gets = 1]]

\* ScraperAPIWrapper.scrape_async run by a task, utils.py 108-127.
task_scrape_async ==
    /\ "ScraperAPIWrapper" \in instances
    /\ \E t \in TaskIds :
           /\ tasks[t].pc = "idle"
           /\ AsyncTask(t, "scrape_async")
    /\ UNCHANGED <<wrappers, call, gets, completed, tools>>

\* google_search_async and amazon_search_async run by a task, through
\* _make_request_async, utils.py 166-175.
task_make_request_async ==
    /\ "ScraperAPIStructuredWrapper" \in instances
    /\ \E t \in TaskIds,
          method \in {"google_search_async", "amazon_search_async"} :
           /\ tasks[t].pc = "idle"
           /\ AsyncTask(t, method)
    /\ UNCHANGED <<wrappers, call, gets, completed, tools>>

\* The transport has the answer to the GET of a suspended task ready.
task_transport ==
    /\ \E t \in TaskIds :
           /\ tasks[t].pc = "get"
           /\ tasks[t].answer.kind = "none"
           /\ \E o \in TaskOutcomes(tasks[t].req) :
                  tasks' = [tasks EXCEPT ![t].answer = o]
    /\ UNCHANGED <<wrappers, call, gets, completed, tools>>

\* Task t resumes from session.get with o: a fault leaves both `async with`
\* blocks by a raise, the response scope never entered; a response enters
\* the response scope, and w says how the method goes on.
ResumeGet(t, o, w) ==
    tasks' = [tasks EXCEPT ![t] =
                 IF o.kind = "fault"
                 THEN [@ EXCEPT !.pc = "exit_session", !.outcome = o,
                                !.wres = Raise(o.exc, o.msg),
                                !.awaits = Append(@, "exit_session")]
                 ELSE IF w.kind = "await"
                 THEN [@ EXCEPT !.pc = "text", !.outcome = o,
                                !.response = [opened |-> 1, closed |-> 0],
                                !.did = aiohttp_response_actions(w),
                                !.awaits = Append(@, "text")]
                 ELSE [@ EXCEPT !.pc = "exit_response", !.outcome = o,
                                !.response = [opened |-> 1, closed |-> 0],
                                !.did = aiohttp_response_actions(w),
                                !.wres = w,
                                !.awaits = Append(@, "exit_response")]]

\* scrape_async resumes from session.get, utils.py 127-131.
task_scrape_async_get ==
    /\ \E t \in TaskIds :
           /\ tasks[t].pc = "get"
           /\ tasks[t].method = "scrape_async"
           /\ Delivered(t).kind # "none"
           /\ ResumeGet(t, Delivered(t),
                        scrape_async_on_response(tasks[t].req, Delivered(t)))
    /\ UNCHANGED <<wrappers, call, gets, completed, tools>>

\* _make_request_async resumes from session.get, utils.py 175-179.
task_make_request_async_get ==
    /\ \E t \in TaskIds :
           /\ tasks[t].pc = "get"
           /\ tasks[t].method \in {"google_search_async", "amazon_search_async"}
           /\ Delivered(t).kind # "none"
           /\ ResumeGet(t, Delivered(t),
                        _make_request_async_on_response(tasks[t].req,
                                                        Delivered(t)))
    /\ UNCHANGED <<wrappers, call, gets, completed, tools>>

\* Task t resumes from response.text() with the body, or with a fault
\* raised while it was read; either way the response scope is left next.
ResumeText(t, f, w) ==
    tasks' = [tasks EXCEPT ![t] =
                 [@ EXCEPT !.pc = "exit_response", !.fault = f, !.wres = w,
                           !.awaits = Append(@, "exit_response")]]

\* scrape_async resumes from response.text(), utils.py 129.
task_scrape_async_text ==
    /\ \E t \in TaskIds :
           /\ tasks[t].pc = "text"
           /\ tasks[t].method = "scrape_async"
           /\ \E f \in {NoFault} \cup {x \in Faults : x.exc = "Timeout"} :
                  ResumeText(t, f,
                             IF f = NoFault
                             THEN scrape_async_on_text(tasks[t].outcome.body)
                             ELSE Raise(f.exc, f.msg))
    /\ UNCHANGED <<wrappers, call, gets, completed, tools>>

\* _make_request_async resumes from response.text(), utils.py 177.
task_make_request_async_text ==
    /\ \E t \in TaskIds :
           /\ tasks[t].pc = "text"
           /\ tasks[t].method \in {"google_search_async", "amazon_search_async"}
           /\ \E f \in {NoFault} \cup {x \in Faults : x.exc = "Timeout"} :
                  ResumeText(t, f,
                             IF f = NoFault
                             THEN _make_request_async_on_text(
                                      tasks[t].outcome.body)
                             ELSE Raise(f.exc, f.msg))
    /\ UNCHANGED <<wrappers, call, gets, completed, tools>>

\* The exit of `async with session.get(...) as response`, utils.py 127 and
\* 175: the response is released, then the session scope is left.
task_exit_response ==
    /\ \E t \in TaskIds :
           /\ tasks[t].pc = "exit_response"
           /\ tasks' = [tasks EXCEPT ![t] =
                           [@ EXCEPT
                               !.pc = "exit_session",
                               !.response =
                                   async_with_exit(@, tasks[t].wres),
                               !.awaits = Append(@, "exit_session")]]
    /\ UNCHANGED <<wrappers, call, gets, completed, tools>>

\* The exit of `async with aiohttp.ClientSession() as session`, utils.py
\* 126 and 174: the session is closed and the call completes.
task_exit_session ==
    /\ \E t \in TaskIds :
           /\ tasks[t].pc = "exit_session"
           /\ tasks' = [tasks EXCEPT ![t] =
                           [@ EXCEPT
                               !.pc = "done",
                               !.session =
                                   async_with_exit(@, tasks[t].wres)]]
    /\ UNCHANGED <<wrappers, call, gets, completed, tools>>

\* Both wrappers exist, with different credentials; no task has started.
InitTasks ==
    /\ scraperapi_api_key = [w \in Wrappers |->
                                IF w = "ScraperAPIWrapper" THEN "key-A"
                                ELSE "key-B"]
    /\ instances = Wrappers
    /\ environ = None
    /\ constructed = NoConstruction
    /\ call = NoCall
    /\ gets = 0
    /\ completed = 0
    /\ tools = ToolAttributes
    /\ tasks = [t \in TaskIds |-> NoTask]

\* The event loop runs one task at a time, from one suspension to the next.
NextTasks ==
    \/ task_scrape
    \/ task_make_request
    \/ task_scrape_async
    \/ task_make_request_async
    \/ task_transport
    \/ task_scrape_async_get
    \/ task_make_request_async_get
    \/ task_scrape_async_text
    \/ task_make_request_async_text
    \/ task_exit_response
    \/ task_exit_session

TaskSpec == InitTasks /\ [][NextTasks]_vars

(* ------------------------------ claims -------------------------------- *)

Done == call.pc = "done"

AsyncMethods == {"scrape_async", "google_search_async", "amazon_search_async"}

BlockingMethods == {"scrape", "google_search", "amazon_search"}

\* The GET of the completed call was answered with a response, read whole.
Answered == Done /\ call.outcome.kind = "response" /\ call.fault = NoFault

Is2xx(status) == 200 <= status /\ status <= 299

\* C1: every facade invocation (_run and _arun of the three tools) completes
\* by returning a string, whatever the status of the response or the fault
\* of the transport: it never raises and never returns a non-string.
C1_FacadeReturnsString ==
    (Done /\ call.layer = "facade")
        => (call.result.kind = "return" /\ call.result.val.tag = "str")

\* C2: whenever the wrapper call delegated by a facade raises a failure
\* with message m, the facade returns exactly the string "Error: " followed
\* by m, in the blocking and the non-blocking form of all three tools.
C2_ErrorString ==
    (Done /\ call.layer = "facade" /\ call.wres.kind = "raise")
        => call.result = Return(StrV("Error: " \o call.wres.val.val))

C2_Witness ==
    /\ Done
    /\ call.layer = "facade"
    /\ call.method = "amazon_search_async"
    /\ call.wres.kind = "raise"
    /\ call.wres.exc = "ClientResponseError"
    /\ call.result.kind = "return"

\* C3: for every non-blocking wrapper method and every response whose
\* status is in the range 200..299, the awaited result is the body text.
C3_AsyncSuccessReturnsBody ==
    (Answered /\ call.method \in AsyncMethods /\ Is2xx(call.outcome.status))
        => call.wres = Return(StrV(call.outcome.body))

\* C4: for every blocking wrapper method and every response whose status
\* is in the range 200..299, the method result is the body text.
C4_BlockingSuccessReturnsBody ==
    (Answered /\ call.method \in BlockingMethods /\ Is2xx(call.outcome.status))
        => call.wres = Return(StrV(call.outcome.body))

C4_Witness ==
    /\ Answered
    /\ call.method = "google_search"
    /\ call.outcome.status = 204
    /\ call.wres = Return(StrV("<html>Success</html>"))

\* C5: in both dispatch modes, a response whose status is outside 200..299
\* makes the wrapper method raise; it never returns a value for it.
C5_NonSuccessRaises ==
    (Answered /\ ~Is2xx(call.outcome.status)) => call.wres.kind = "raise"

\* The key under which a wrapper method sends one of its arguments.
WireName(method, k) ==
    IF method \in {"amazon_search", "amazon_search_async"} /\ k = "country_code"
    THEN "country" ELSE k

Required == {"url", "query"}

Sent == call.pc # "idle"

\* C6: in every request a wrapper method builds, an optional argument left
\* unset has no key at all in the params, and no key of the params holds a
\* None.
C6_UnsetOmitted ==
    Sent =>
        /\ \A k \in DOMAIN call.args \ Required :
               call.args[k] = None
                   => WireName(call.method, k) \notin DOMAIN call.req.params
        /\ \A k \in DOMAIN call.req.params : call.req.params[k] # None

C6_Witness ==
    /\ Sent
    /\ call.method = "google_search"
    /\ call.args.num = None
    /\ call.args.hl # None
    /\ "num" \notin DOMAIN call.req.params
    /\ "hl" \in DOMAIN call.req.params

ScrapeMethods == {"scrape", "scrape_async"}

\* C7 as stated: a request of scrape or scrape_async holds api_key and url,
\* and holds each of output_format, country_code and device_type exactly
\* when its argument is not None (an empty string included), with its value.
C7_SentWhenNotNone ==
    (Sent /\ call.method \in ScrapeMethods) =>
        /\ {"api_key", "url"} \subseteq DOMAIN call.req.params
        /\ \A k \in {"output_format", "country_code", "device_type"} :
               /\ (k \in DOMAIN call.req.params) <=> (call.args[k] # None)
               /\ (k \in DOMAIN call.req.params)
                      => call.req.params[k] = call.args[k]

\* C7 as amended: ... exactly when its argument is a non-empty string; an
\* argument that is None or the empty string is left out of the request.
C7_SentWhenNonEmpty ==
    (Sent /\ call.method \in ScrapeMethods) =>
        /\ {"api_key", "url"} \subseteq DOMAIN call.req.params
        /\ call.req.params["url"] = call.args.url
        /\ \A k \in {"output_format", "country_code", "device_type"} :
               /\ (k \in DOMAIN call.req.params)
                      <=> (call.args[k].tag = "str" /\ call.args[k].val # "")
               /\ (k \in DOMAIN call.req.params)
                      => call.req.params[k] = call.args[k]

C7_Witness ==
    /\ Sent
    /\ call.method = "scrape_async"
    /\ call.args.country_code = StrV("")
    /\ call.args.device_type = StrV("mobile")
    /\ DOMAIN call.req.params = {"api_key", "url", "device_type"}

\* C8: for premium, render and keep_headers in scrape and scrape_async, a
\* true argument is sent as the string "true", a false one as the string
\* "false" (sent, not left out), and never as a native boolean.
C8_BooleansAsStrings ==
    (Sent /\ call.method \in ScrapeMethods) =>
        \A k \in {"premium", "render", "keep_headers"} :
            /\ call.args[k] = BoolV(TRUE)
                   => (k \in DOMAIN call.req.params
                       /\ call.req.params[k] = StrV("true"))
            /\ call.args[k] = BoolV(FALSE)
                   => (k \in DOMAIN call.req.params
                       /\ call.req.params[k] = StrV("false"))
            /\ (k \in DOMAIN call.req.params)
                   => call.req.params[k].tag # "bool"

C8_Witness ==
    /\ Sent
    /\ call.method = "scrape_async"
    /\ call.args.render = BoolV(FALSE)
    /\ call.args.premium = BoolV(TRUE)
    /\ call.req.params["render"] = StrV("false")
    /\ call.req.params["premium"] = StrV("true")

AmazonMethods == {"amazon_search", "amazon_search_async"}

\* C9: in every request of amazon_search or amazon_search_async a supplied
\* country_code is sent under the key country with its value, and the key
\* country_code is never in the request.
C9_CountryRenamed ==
    (Sent /\ call.method \in AmazonMethods) =>
        /\ call.args.country_code # None
               => ("country" \in DOMAIN call.req.params
                   /\ call.req.params["country"] = call.args.country_code)
        /\ "country_code" \notin DOMAIN call.req.params

C9_Witness ==
    /\ Sent
    /\ call.method = "amazon_search_async"
    /\ call.args.country_code = StrV("uk")
    /\ call.req.params["country"] = StrV("uk")

GoogleMethods == {"google_search", "google_search_async"}

\* C10: in every request of google_search or google_search_async each
\* supplied optional argument is sent under its own name with its value
\* unchanged, a zero and an empty string included; no key of the request
\* is a renamed field.
C10_GooglePassThrough ==
    (Sent /\ call.method \in GoogleMethods) =>
        /\ \A k \in DOMAIN call.args :
               call.args[k] # None
                   => (k \in DOMAIN call.req.params
                       /\ call.req.params[k] = call.args[k])
        /\ DOMAIN call.req.params \subseteq {"api_key"} \cup DOMAIN call.args

C10_Witness ==
    /\ Sent
    /\ call.method = "google_search"
    /\ call.args.num = IntV(0)
    /\ call.args.hl = StrV("")
    /\ call.req.params["num"] = IntV(0)
    /\ call.req.params["hl"] = StrV("")

\* C11: every wrapper method sends its GET to one fixed target, whatever
\* its arguments: scrape and scrape_async to the generic base URL,
\* google_search and its async form to the structured base URL followed by
\* "google/search", amazon_search and its async form to the structured base
\* URL followed by "amazon/search".
C11_FixedTarget ==
    Sent /\ call.method # "" =>
        call.req.target =
            CASE call.method \in ScrapeMethods -> "https://api.scraperapi.com/"
              [] call.method \in GoogleMethods ->
                     "https://api.scraperapi.com/structured/google/search"
              [] call.method \in AmazonMethods ->
                     "https://api.scraperapi.com/structured/amazon/search"

C11_Witness ==
    /\ Sent
    /\ call.method = "google_search_async"
    /\ call.args.country_code = StrV("us")
    /\ call.req.target = "https://api.scraperapi.com/structured/google/search"

\* C12: after any sequence of n completed wrapper calls, whatever their
\* arguments and outcomes, exactly n GETs have been issued: one for each
\* call, none repeated after a failure and none saved for a repeated call.
\* A call suspended in its GET or in the read of the body has issued its
\* one GET and has not completed.
C12_OneGetPerCall ==
    /\ call.pc \in {"idle", "done"} => gets = completed
    /\ call.pc \in {"get", "text"} => gets = completed + 1

C12_Witness ==
    /\ Done
    /\ completed = 2
    /\ gets = 2
    /\ call.wres.kind = "raise"

\* The string s holds the string k somewhere in it.
Contains(s, k) ==
    \E i \in 1..(Len(s) - Len(k) + 1) : SubSeq(s, i, i + Len(k) - 1) = k

\* The credential of the wrapper that serves the call.
KeyOfCall ==
    scraperapi_api_key[IF call.method \in ScrapeMethods
                       THEN "ScraperAPIWrapper"
                       ELSE "ScraperAPIStructuredWrapper"]

\* C13: the API key is never echoed: no string a facade returns (a success
\* text or an "Error: ..." text) and no failure message a wrapper raises
\* holds the credential, so two wrappers that differ in the credential
\* alone give the same strings for the same arguments and outcome.
C13_KeyNotEchoed ==
    (Done /\ call.method # "") =>
        /\ call.wres.val.tag = "str" => ~Contains(call.wres.val.val, KeyOfCall)
        /\ call.result.val.tag = "str"
               => ~Contains(call.result.val.val, KeyOfCall)

\* The last construction was given no credential, or an empty one.
NoCredentialPassed ==
    /\ constructed.cls # ""
    /\ \/ "scraperapi_api_key" \notin DOMAIN constructed.values
       \/ ~Truthy(constructed.values["scraperapi_api_key"])

\* C14: with no credential passed and the environment variable absent, the
\* construction of a wrapper, and of a tool with its default wrapper, fails
\* with a raised failure that names the missing credential, and leaves no
\* instance a request could be issued from.
C14_MissingKeyFails ==
    (/\ constructed.cls # ""
     /\ "scraperapi_api_key" \notin DOMAIN constructed.values
     /\ environ = None)
        => /\ constructed.result.kind = "raise"
           /\ Contains(constructed.result.val.val, "scraperapi_api_key")
           /\ Contains(constructed.result.val.val, "SCRAPERAPI_API_KEY")
           /\ constructed.wrapper \notin instances

C14_Witness ==
    /\ constructed.cls = "ScraperAPIAmazonSearchTool"
    /\ environ = None
    /\ constructed.result.kind = "raise"
    /\ "ScraperAPIStructuredWrapper" \notin instances

\* C15: a credential passed to the constructor is the one the wrapper
\* holds, also when the environment variable is set to another value; with
\* none passed and the environment variable set, the wrapper holds the
\* value of the environment variable.
C15_ConstructorFirst ==
    (/\ constructed.cls # ""
     /\ constructed.result.kind = "return"
     /\ constructed.wrapper \in instances) =>
        /\ ~NoCredentialPassed
               => scraperapi_api_key[constructed.wrapper]
                      = constructed.values["scraperapi_api_key"].val
        /\ ("scraperapi_api_key" \notin DOMAIN constructed.values
                /\ environ = StrV("env-key"))
               => scraperapi_api_key[constructed.wrapper] = "env-key"

C15_Witness ==
    /\ constructed.cls = "ScraperAPIStructuredWrapper"
    /\ constructed.result.kind = "return"
    /\ environ = StrV("env-key")
    /\ constructed.values = [k \in {"scraperapi_api_key"} |-> StrV("key-A")]
    /\ scraperapi_api_key["ScraperAPIStructuredWrapper"] = "key-A"
    /\ scraperapi_api_key["ScraperAPIWrapper"] = "env-key"

\* C16: every constructed wrapper holds a non-empty credential: for every
\* constructor argument (absent, empty, non-empty) and every value of the
\* environment variable (absent, empty, non-empty) the construction fails
\* or yields an instance whose key is a non-empty string.
C16_KeyNonEmpty ==
    \A w \in instances :
        /\ scraperapi_api_key[w] # ""
        /\ Len(scraperapi_api_key[w]) > 0

C16_Witness ==
    /\ constructed.cls = "ScraperAPIWrapper"
    /\ constructed.values = [k \in {"scraperapi_api_key"} |-> StrV("")]
    /\ environ = StrV("")
    /\ constructed.result.kind = "raise"
    /\ "ScraperAPIStructuredWrapper" \in instances

\* C19: when the wrapper call a facade delegates to returns a text t, the
\* facade's result is t itself, nothing added, removed or reformatted, in
\* _run and _arun of the three tools; a text that reads like an error
\* message is returned as it is.
C19_TextUnchanged ==
    (/\ Done
     /\ call.layer = "facade"
     /\ call.wres.kind = "return"
     /\ call.wres.val.tag = "str")
        => /\ call.result.kind = "return"
           /\ call.result.val = call.wres.val
           /\ call.result.val.val = call.outcome.body

C19_Witness ==
    /\ Done
    /\ call.layer = "facade"
    /\ call.method = "google_search"
    /\ call.wres = Return(StrV("Error: boom"))
    /\ call.result = Return(StrV("Error: boom"))

\* The fields a tool's facade declares.
DeclaredFields(tool) ==
    CASE tool = "scraperapi" -> {"url"} \cup DOMAIN ScrapeDomain
      [] tool = "scraperapi_google_search" -> {"query"} \cup DOMAIN GoogleDomain
      [] tool = "scraperapi_amazon_search" -> {"query"} \cup DOMAIN AmazonDomain

\* The wrapper method a tool's facade delegates to in a dispatch mode.
Delegate(tool, mode) ==
    CASE tool = "scraperapi" ->
             IF mode = "blocking" THEN "scrape" ELSE "scrape_async"
      [] tool = "scraperapi_google_search" ->
             IF mode = "blocking" THEN "google_search"
             ELSE "google_search_async"
      [] tool = "scraperapi_amazon_search" ->
             IF mode = "blocking" THEN "amazon_search"
             ELSE "amazon_search_async"

\* C20: a facade invocation makes one wrapper call, to the method of its
\* tool and dispatch mode (_run to the blocking one, _arun to the
\* non-blocking one); the call's keywords are the declared fields, each with
\* the value the caller gave and None for each field the caller left out;
\* the one GET of that wrapper call is all it issues.
C20_OneDelegatedCall ==
    (call.layer = "facade" /\ call.pc # "idle") =>
        /\ call.wcalls = 1
        /\ call.method = Delegate(call.tool, call.mode)
        /\ DOMAIN call.kwargs = DeclaredFields(call.tool)
        /\ \A k \in DeclaredFields(call.tool) : call.kwargs[k] = call.args[k]
        /\ gets = completed + (IF Done THEN 0 ELSE 1)

C20_Witness ==
    /\ Done
    /\ call.layer = "facade"
    /\ call.method = "google_search_async"
    /\ call.args.hl = StrV("DE")
    /\ call.args.gl = None
    /\ call.kwargs.hl = StrV("DE")
    /\ call.kwargs.gl = None
    /\ call.wcalls = 1

\* The field a tool's schema requires, and the values that violate the
\* declaration of each of its fields.
RequiredOf(tool) == IF tool = "scraperapi" THEN "url" ELSE "query"

ViolatingOf(tool) ==
    CASE tool = "scraperapi" -> ScrapeViolating
      [] tool = "scraperapi_google_search" -> GoogleViolating
      [] tool = "scraperapi_amazon_search" -> AmazonViolating

\* The input of an invocation violates the tool's schema: the required url
\* or query is missing, or a value is of the wrong type or outside the
\* closed set of its field.
Violates(tool, raw) ==
    \/ RequiredOf(tool) \notin DOMAIN raw
    \/ \E k \in DOMAIN raw : raw[k] \in ViolatingOf(tool)[k]

C18_UrlNonEmpty ==
    (call.tool = "scraperapi" /\ call.pc # "idle") =>
        /\ ("url" \in DOMAIN call.args /\ call.args.url = StrV(""))
               => Done /\ call.result.kind = "raise"
        /\ "url" \in DOMAIN call.req.params
               => call.req.params.url # StrV("")

\* The request the twin of `method` (the blocking form of a non-blocking
\* method, the non-blocking form of a blocking one) builds for the same
\* credential and keyword arguments.
TwinRequest(method, key, kw) ==
    CASE method = "scrape" -> scrape_async_request(key, kw)
      [] method = "scrape_async" -> scrape_request(key, kw)
      [] method = "google_search" -> google_search_async_request(key, kw)
      [] method = "google_search_async" -> google_search_request(key, kw)
      [] method = "amazon_search" -> amazon_search_async_request(key, kw)
      [] method = "amazon_search_async" -> amazon_search_request(key, kw)

\* C24: for every argument tuple the request a wrapper method issued is the
\* request its twin of the other mode builds from the same arguments: the
\* same target URL and the same parameter mapping, key for key.
C24_TwinsSameRequest ==
    (call.pc # "idle" /\ call.method # "") =>
        LET twin == TwinRequest(call.method, KeyOfCall, call.kwargs)
        IN  /\ call.req.target = twin.target
            /\ DOMAIN call.req.params = DOMAIN twin.params
            /\ \A k \in DOMAIN twin.params :
                   call.req.params[k] = twin.params[k]

C24_Witness ==
    /\ Done
    /\ call.method = "amazon_search_async"
    /\ call.kwargs.country_code = StrV("uk")
    /\ call.kwargs.page = IntV(0)
    /\ call.kwargs.tld = None
    /\ DOMAIN call.req.params = {"api_key", "query", "country", "page"}

\* C25: no call changes the credential a wrapper holds, whatever the call
\* ends in and in either mode, and every request a wrapper sends carries
\* api_key equal to the credential the wrapper holds, in the second call as
\* in the first.
C25_CredentialFixed ==
    /\ [][scraperapi_api_key' = scraperapi_api_key]_vars
    /\ [](call.pc # "idle" =>
              /\ "api_key" \in DOMAIN call.req.params
              /\ call.req.params.api_key = StrV(KeyOfCall))

C25_Witness ==
    /\ Done
    /\ completed = 2
    /\ call.method = "google_search"
    /\ call.wres.kind = "raise"
    /\ scraperapi_api_key["ScraperAPIStructuredWrapper"] = "key-B"
    /\ call.req.params.api_key = StrV("key-B")

\* C29 as stated, its outcome: a call that has completed, a step after its
\* GET was answered or failed, ended in one of two outcomes: a wrapper call
\* in a success text or a raised failure, a facade invocation in a success
\* text or an error text.
C29_TwoOutcomes ==
    (Done /\ call.method # "") =>
        /\ call.outcome.kind \in {"response", "fault"}
        /\ IF call.layer = "wrapper"
           THEN \/ call.result.kind = "raise"
                \/ call.result.kind = "return" /\ call.result.val.tag = "str"
           ELSE call.result.kind = "return" /\ call.result.val.tag = "str"

\* The string s begins with the string p.
StartsWith(s, p) == Len(s) >= Len(p) /\ SubSeq(s, 1, Len(p)) = p

C23_ToolIdentity ==
    /\ []( /\ {tools[cls].name : cls \in ToolClasses}
                = {"scraperapi", "scraperapi_google_search",
                   "scraperapi_amazon_search"}
           /\ \A c, d \in ToolClasses :
                  c # d => /\ tools[c].name # tools[d].name
                           /\ tools[c].args_schema # tools[d].args_schema
           /\ \A cls \in ToolClasses :
                  /\ tools[cls].args_schema = cls \o "Input"
                  /\ Len(tools[cls].description) > 0 )
    /\ [][tools' = tools]_vars

C23_Witness ==
    /\ Done
    /\ call.layer = "invoke"
    /\ call.tool = "scraperapi_amazon_search"
    /\ call.result.kind = "raise"
    /\ completed = 1
    /\ tools["ScraperAPIAmazonSearchTool"].name = "scraperapi_amazon_search"
    /\ tools["ScraperAPIAmazonSearchTool"].args_schema
           = "ScraperAPIAmazonSearchToolInput"

\* Task t has started a non-blocking call; a blocking one.
IsAsyncTask(t) == tasks[t].method \in AsyncTaskMethods

IsBlockingTask(t) == tasks[t].method \in BlockingTaskMethods

\* What `method` ends in when it runs alone with the request req, the GET
\* answered with o and the body read with the fault f (NoFault: read whole).
Alone(method, req, o, f) ==
    CASE method = "scrape" -> scrape_result(req, o)
      [] method \in {"google_search", "amazon_search"} ->
             _make_request_result(req, o)
      [] method \in AsyncTaskMethods ->
             IF o.kind = "fault" THEN Raise(o.exc, o.msg)
             ELSE LET w == IF method = "scrape_async"
                           THEN scrape_async_on_response(req, o)
                           ELSE _make_request_async_on_response(req, o)
                  IN  IF w.kind # "await" THEN w
                      ELSE IF f # NoFault THEN Raise(f.exc, f.msg)
                      ELSE Return(StrV(o.body))

\* C21: whatever the interleaving of the tasks, on one wrapper instance or
\* on two, each call sends the request built from its own arguments and the
\* credential of its wrapper, resumes with the answer to its own GET, and
\* completes with what it would have ended in had it run alone.
C21_Independent ==
    \A t \in TaskIds :
        tasks[t].pc # "idle" =>
            /\ tasks[t].req
                   = RequestOf(tasks[t].method,
                               scraperapi_api_key[WrapperOf(tasks[t].method)],
                               TaskArgs(t, tasks[t].method))
            /\ tasks[t].outcome.kind # "none"
                   => tasks[t].outcome = tasks[t].answer
            /\ tasks[t].outcome.kind = "response"
                   => Contains(tasks[t].outcome.body, ToString(t))
            /\ tasks[t].pc = "done"
                   => tasks[t].wres = Alone(tasks[t].method, tasks[t].req,
                                            tasks[t].answer, tasks[t].fault)

C21_Witness ==
    /\ tasks[1].method = "scrape_async"
    /\ tasks[2].method = "scrape_async"
    /\ tasks[1].pc = "get"
    /\ tasks[1].answer.kind = "response"
    /\ tasks[1].answer.status = 404
    /\ tasks[2].pc = "done"
    /\ tasks[2].outcome.status = 200
    /\ tasks[2].wres = Return(StrV("<html>http://example.com/2</html>"))

\* C22 as stated: a non-blocking wrapper call suspends at one point, the
\* await of the GET, and at no other point between its start and its
\* completion.
C22_OneSuspension ==
    \A t \in TaskIds :
        IsAsyncTask(t) =>
            /\ tasks[t].pc \in {"get", "done"}
            /\ tasks[t].awaits = <<"get">>

\* The points a non-blocking call that resumed from its GET with o passes,
\* in order.
AwaitPath(o) ==
    IF o.kind = "none" THEN <<"get">>
    ELSE IF o.kind = "fault" THEN <<"get", "exit_session">>
    ELSE IF o.status = 200
    THEN <<"get", "text", "exit_response", "exit_session">>
    ELSE <<"get", "exit_response", "exit_session">>

\* C22, amended: a non-blocking call suspends first at the await of the GET
\* and, for a response of status 200 alone, a second time at the await of
\* response.text(); it resumes from the GET with the response or the
\* propagated fault and from the body read with the text or the propagated
\* fault; after that it can yield only in the exits of its response and
\* session scopes; a blocking call suspends nowhere.
C22_SuspensionPoints ==
    \A t \in TaskIds :
        /\ IsBlockingTask(t) => tasks[t].awaits = <<>> /\ tasks[t].pc = "done"
        /\ IsAsyncTask(t) =>
               LET path == AwaitPath(tasks[t].outcome)
                   n    == Len(tasks[t].awaits)
               IN  /\ n >= 1 /\ n <= Len(path)
                   /\ tasks[t].awaits = SubSeq(path, 1, n)
                   /\ tasks[t].pc = "done" => n = Len(path)
                   /\ tasks[t].pc # "done" => tasks[t].pc = path[n]
                   /\ (tasks[t].pc \in {"exit_response", "exit_session", "done"}
                           /\ tasks[t].outcome.kind = "response"
                           /\ tasks[t].outcome.status = 200)
                          => \/ tasks[t].wres
                                    = Return(StrV(tasks[t].outcome.body))
                             \/ /\ tasks[t].fault # NoFault
                                /\ tasks[t].wres = Raise(tasks[t].fault.exc,
                                                         tasks[t].fault.msg)

C22_Witness ==
    /\ tasks[1].method = "google_search_async"
    /\ tasks[1].pc = "text"
    /\ tasks[1].awaits = <<"get", "text">>
    /\ tasks[2].method = "google_search_async"
    /\ tasks[2].pc = "done"
    /\ tasks[2].outcome.status = 204
    /\ tasks[2].awaits = <<"get", "exit_response", "exit_session">>

\* C26: when the GET itself fails with a fault of the transport, the wrapper
\* method, blocking or not, raises that fault, its class and message
\* unchanged; it invokes no method of a response (no status check, no body
\* read), enters no response scope and has issued the one GET only.
C26_FaultPropagates ==
    \A t \in TaskIds :
        tasks[t].outcome.kind = "fault" =>
            /\ tasks[t].wres = Raise(tasks[t].answer.exc, tasks[t].answer.msg)
            /\ tasks[t].wres.exc = "ConnectionError"
            /\ tasks[t].did = <<>>
            /\ tasks[t].response = NoScopes
            /\ tasks[t].gets = 1
            /\ \A i \in 1..Len(tasks[t].awaits) : tasks[t].awaits[i] # "text"

C26_Witness ==
    /\ tasks[1].method = "scrape"
    /\ tasks[1].pc = "done"
    /\ tasks[1].outcome.kind = "fault"
    /\ tasks[1].wres = Raise("ConnectionError", "Connection failed")
    /\ tasks[2].method = "amazon_search_async"
    /\ tasks[2].pc = "done"
    /\ tasks[2].outcome.kind = "fault"
    /\ tasks[2].wres = Raise("ConnectionError", "Connection failed")

\* C27 as stated: every non-blocking call that has completed, by a return
\* or by a raise, opened one session and one response scope and closed each
\* of them once.
C27_OneSessionOneResponse ==
    \A t \in TaskIds :
        (IsAsyncTask(t) /\ tasks[t].pc = "done") =>
            /\ tasks[t].session = [opened |-> 1, closed |-> 1]
            /\ tasks[t].response = [opened |-> 1, closed |-> 1]

\* C27, amended: every non-blocking call opens one session of its own and,
\* once its GET is answered with a response, one response scope (none when
\* the GET itself fails); each scope it opened is closed once before the
\* call completes, whether it returns or raises; no session and no response
\* stays open after the call has completed.
C27_ScopesClosed ==
    \A t \in TaskIds :
        IsAsyncTask(t) =>
            /\ tasks[t].session.opened = 1
            /\ tasks[t].session.closed <= 1
            /\ tasks[t].response.opened
                   = (IF tasks[t].outcome.kind = "response" THEN 1 ELSE 0)
            /\ tasks[t].response.closed <= tasks[t].response.opened
            /\ tasks[t].pc = "done"
                   => /\ tasks[t].session.closed = 1
                      /\ tasks[t].response.closed = tasks[t].response.opened
            /\ tasks[t].pc # "done" => tasks[t].session.closed = 0

C27_Witness ==
    /\ tasks[1].method = "scrape_async"
    /\ tasks[1].pc = "done"
    /\ tasks[1].wres.kind = "raise"
    /\ tasks[1].outcome.status = 404
    /\ tasks[1].session = [opened |-> 1, closed |-> 1]
    /\ tasks[1].response = [opened |-> 1, closed |-> 1]
    /\ tasks[2].method = "scrape_async"
    /\ tasks[2].pc = "done"
    /\ tasks[2].outcome.kind = "fault"
    /\ tasks[2].response = NoScopes

\* C28: in a non-blocking call that resumed from its GET with a response,
\* the status decides between the two response actions: for status 200 the
\* body is read once and raise_for_status() is not invoked; for any other
\* status raise_for_status() is invoked once and the body is not read.
C28_TextXorStatusCheck ==
    \A t \in TaskIds :
        (IsAsyncTask(t) /\ tasks[t].outcome.kind = "response") =>
            IF tasks[t].outcome.status = 200
            THEN tasks[t].did = <<"text">>
            ELSE tasks[t].did = <<"raise_for_status">>

C28_Witness ==
    /\ tasks[1].method = "amazon_search_async"
    /\ tasks[1].pc = "done"
    /\ tasks[1].outcome.status = 204
    /\ tasks[1].did = <<"raise_for_status">>
    /\ tasks[2].method = "amazon_search_async"
    /\ tasks[2].pc = "done"
    /\ tasks[2].outcome.status = 200
    /\ tasks[2].did = <<"text">>

====
